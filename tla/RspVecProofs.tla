---------------------------- MODULE RspVecProofs ----------------------------
(***************************************************************************)
(* Translated vector instructions implement the interpreter's, for every   *)
(* width of a lane.  The argument is arithmetic of two's complement: what  *)
(* the host computes on bit patterns is right modulo 2^64, and every value *)
(* that is looked at as a number is in range.                              *)
(***************************************************************************)
EXTENDS RspVecBt, TLAPS

-----------------------------------------------------------------------------
(* Division and remainder.                                                 *)

LEMMA DivMod ==
    ASSUME NEW D \in Nat, D > 0, NEW a \in Int
    PROVE  a % D \in 0 .. D - 1 /\ a \div D \in Int /\ a = D * (a \div D) + (a % D)
  BY Z3

LEMMA MulStep ==
    ASSUME NEW D \in Nat, D > 0, NEW q \in Int
    PROVE  (q >= 1 => D * q >= D) /\ (q <= -1 => D * q <= -D)
  BY Z3

LEMMA Distribute ==
    ASSUME NEW a \in Int, NEW b \in Int, NEW c \in Int
    PROVE  a * (b - c) = a * b - a * c /\ a * (b + c) = a * b + a * c
  BY Z3

\* Quotient and remainder are unique.
LEMMA DivModUnique ==
    ASSUME NEW D \in Nat, D > 0, NEW q \in Int, NEW s \in 0 .. D - 1
    PROVE  (D * q + s) % D = s /\ (D * q + s) \div D = q
<1> DEFINE a == D * q + s
           d == q - (a \div D)
<1>1. /\ a \in Int /\ a % D \in 0 .. D - 1
      /\ a \div D \in Int /\ a = D * (a \div D) + (a % D)
  BY DivMod
<1>2. d \in Int /\ D * d = (a % D) - s
  BY <1>1
<1>3. d = 0
  BY <1>1, <1>2, MulStep
<1> QED
  BY <1>1, <1>2, <1>3

LEMMA DivOfNat ==
    ASSUME NEW D \in Nat, D > 0, NEW a \in Nat
    PROVE  a \div D \in Nat /\ a \div D <= a
<1>1. a % D \in 0 .. D - 1 /\ a \div D \in Int /\ a = D * (a \div D) + (a % D)
  BY DivMod
<1>2. a \div D >= 0
  BY <1>1, MulStep
<1>3. D * (a \div D) >= a \div D
  BY <1>1, <1>2, Z3
<1> QED
  BY <1>1, <1>2, <1>3

\* Adding a multiple of D.
LEMMA ModShift ==
    ASSUME NEW D \in Nat, D > 0, NEW a \in Int, NEW k \in Int
    PROVE  (a + D * k) % D = a % D /\ (a + D * k) \div D = (a \div D) + k
<1>1. a % D \in 0 .. D - 1 /\ a \div D \in Int /\ a = D * (a \div D) + (a % D)
  BY DivMod
<1>2. (a \div D) + k \in Int /\ a + D * k = D * ((a \div D) + k) + (a % D)
  BY <1>1
<1>3. /\ (D * ((a \div D) + k) + (a % D)) % D = a % D
      /\ (D * ((a \div D) + k) + (a % D)) \div D = (a \div D) + k
  BY ONLY <1>1, <1>2, DivModUnique, D \in Nat, D > 0
<1> QED
  BY <1>2, <1>3

\* A remainder by a multiple of D tells the remainder by D.
LEMMA ModMod ==
    ASSUME NEW D \in Nat, D > 0, NEW K \in Nat, K > 0, D * K > 0, D * K \in Nat,
           NEW a \in Int
    PROVE  (a % (D * K)) % D = a % D
<1> DEFINE M == D * K
           q == a \div M
<1>1. a % M \in 0 .. M - 1 /\ q \in Int /\ a = M * q + (a % M)
  BY DivMod
<1>2. -(K * q) \in Int /\ a % M = a + D * (-(K * q))
  BY <1>1
<1>3. (a + D * (-(K * q))) % D = a % D
  BY ONLY <1>2, ModShift, D \in Nat, D > 0, a \in Int, K \in Nat
<1> QED
  BY <1>2, <1>3

-----------------------------------------------------------------------------
(* Two's complement: numbers from -h to h - 1 and patterns below 2h.       *)

LEMMA WrapFacts ==
    ASSUME NEW h \in Nat, h > 0, NEW x \in Int
    PROVE  /\ Wrap(x, h) \in -h .. h - 1
           /\ x \in -h .. h - 1 => Wrap(x, h) = x
           /\ \A k \in Int : Wrap(x + 2 * h * k, h) = Wrap(x, h)
           /\ \E k \in Int : x = Wrap(x, h) + 2 * h * k
<1> DEFINE D == 2 * h
<1>1. D \in Nat /\ D > 0 /\ x + h \in Int
  OBVIOUS
<1>2. /\ (x + h) % D \in 0 .. D - 1 /\ (x + h) \div D \in Int
      /\ x + h = D * ((x + h) \div D) + ((x + h) % D)
  BY <1>1, DivMod
<1>3. Wrap(x, h) \in -h .. h - 1
  BY <1>2 DEF Wrap
<1>4. ASSUME x \in -h .. h - 1 PROVE Wrap(x, h) = x
  <2>1. x + h \in 0 .. D - 1 /\ x + h = D * 0 + (x + h)
    BY <1>4
  <2>2. (D * 0 + (x + h)) % D = x + h
    BY ONLY <2>1, <1>1, DivModUnique
  <2> QED
    BY <2>1, <2>2 DEF Wrap
<1>5. ASSUME NEW k \in Int PROVE Wrap(x + 2 * h * k, h) = Wrap(x, h)
  <2>1. (x + h + D * k) % D = (x + h) % D
    BY ONLY <1>1, ModShift, k \in Int
  <2>2. (x + 2 * h * k) + h = x + h + D * k
    OBVIOUS
  <2> QED
    BY ONLY <2>1, <2>2 DEF Wrap
<1>6. \E k \in Int : x = Wrap(x, h) + 2 * h * k
  <2>1. x = Wrap(x, h) + 2 * h * ((x + h) \div D)
    BY <1>2 DEF Wrap
  <2> QED
    BY <2>1, <1>2
<1> QED
  BY <1>3, <1>4, <1>5, <1>6

\* What a pattern stands for, and back.
LEMMA SignedFacts ==
    ASSUME NEW h \in Nat, h > 0, NEW p \in 0 .. 2 * h - 1
    PROVE  /\ Signed(p, 2 * h) \in -h .. h - 1
           /\ Signed(p, 2 * h) % (2 * h) = p
           /\ Signed(p, 2 * h) = p \/ Signed(p, 2 * h) = p - 2 * h
<1>1. CASE p >= h
  <2>1. Signed(p, 2 * h) = p - 2 * h
    BY <1>1 DEF Signed
  <2>2. (2 * h) * (-1) + p = p - 2 * h
    OBVIOUS
  <2>3. ((2 * h) * (-1) + p) % (2 * h) = p
    BY DivModUnique
  <2> QED
    BY <2>1, <2>2, <2>3, <1>1
<1>2. CASE p < h
  <2>1. Signed(p, 2 * h) = p
    BY <1>2 DEF Signed
  <2>2. ((2 * h) * 0 + p) % (2 * h) = p
    BY DivModUnique
  <2> QED
    BY <2>1, <2>2, <1>2
<1> QED
  BY <1>1, <1>2

\* The pattern of x stands for x brought into range.
LEMMA SignedMod ==
    ASSUME NEW h \in Nat, h > 0, NEW x \in Int
    PROVE  /\ x % (2 * h) \in 0 .. 2 * h - 1
           /\ Signed(x % (2 * h), 2 * h) = Wrap(x, h)
<1> DEFINE D == 2 * h
           p == x % D
<1>1. D \in Nat /\ D > 0
  OBVIOUS
<1>2. p \in 0 .. D - 1 /\ x \div D \in Int /\ x = D * (x \div D) + p
  BY <1>1, DivMod
<1>3. PICK k \in Int : Signed(p, D) = p + D * k
  <2>1. Signed(p, D) = p + D * 0 \/ Signed(p, D) = p + D * (-1)
    BY <1>2, SignedFacts
  <2> HIDE DEF p, D
  <2> QED
    BY ONLY <2>1, 0 \in Int, -1 \in Int, Zenon
<1>4. Signed(p, D) \in -h .. h - 1
  BY <1>2, SignedFacts
<1>5. PICK j \in Int : Signed(p, D) = x + 2 * h * j
  <2> DEFINE q == x \div D
  <2>1. q \in Int /\ k - q \in Int
    BY <1>2
  <2>2. 2 * h * (k - q) = D * k - D * q
    BY <2>1, <1>1, Distribute
  <2>3. x + 2 * h * (k - q) = p + D * k
    BY <1>2, <2>1, <2>2
  <2> QED
    BY <1>3, <2>1, <2>3
<1>6. Wrap(x + 2 * h * j, h) = Wrap(x, h)
  BY ONLY WrapFacts, h \in Nat, h > 0, x \in Int, j \in Int
<1>7. Wrap(Signed(p, D), h) = Signed(p, D)
  BY ONLY <1>4, WrapFacts, h \in Nat, h > 0
<1> QED
  BY <1>2, <1>5, <1>6, <1>7

-----------------------------------------------------------------------------
(* Sizes. *)

HostHalf == LaneMod * AccHalf
Square == LaneMod * LaneMod

LEMMA ByteSize ==
    /\ ByteMod \in Nat /\ ByteMod >= 2
    /\ \E b \in Nat : b >= 1 /\ ByteMod = 2 * b
<1>1. ByteMod \in Nat /\ ByteMod > 0 /\ ByteMod % 2 = 0
  BY ByteModAssumption
<1>2. PICK b \in Int : ByteMod = 2 * b + 0
  <2>1. ByteMod \div 2 \in Int /\ ByteMod = 2 * (ByteMod \div 2) + (ByteMod % 2)
    BY <1>1, DivMod
  <2> QED
    BY <1>1, <2>1
<1>3. b \in Nat /\ b >= 1
  BY <1>1, <1>2
<1> QED
  BY ONLY <1>1, <1>2, <1>3

LEMMA LaneSize ==
    /\ LaneMod \in Nat /\ LaneMod >= 4
    /\ Half \in Nat /\ Half >= 2 /\ LaneMod = 2 * Half
<1>1. PICK b \in Nat : b >= 1 /\ ByteMod = 2 * b
  BY ByteSize
<1> DEFINE h == 2 * (b * b)
<1>2. b * b \in Nat /\ b * b >= 1
  BY <1>1, Z3
<1>3. LaneMod = 2 * h
  BY <1>1, Z3 DEF LaneMod
<1>4. h \in Nat /\ h >= 2
  BY <1>2
<1>5. (2 * h + 0) \div 2 = h
  BY <1>4, DivModUnique
<1> QED
  BY <1>3, <1>4, <1>5 DEF Half

LEMMA Product2 ==
    ASSUME NEW x \in Nat, NEW y \in Nat, x > 0, y > 0
    PROVE  x * y \in Nat /\ x * y > 0 /\ x * y >= x /\ x * y >= y
  BY Z3

\* The accumulator is a number of lanes wide; the host holds an accumulator shifted
\* by a lane.
LEMMA AccSize ==
    /\ Square \in Nat /\ Square > 0 /\ Square >= LaneMod
    /\ Half * LaneMod \in Nat /\ Half * LaneMod > 0
    /\ AccHalf \in Nat /\ AccHalf > 0
    /\ AccHalf = LaneMod * (Half * LaneMod) /\ AccHalf = Square * Half
    /\ HostHalf \in Nat /\ HostHalf > 0 /\ HostHalf >= AccHalf
    /\ Host = 2 * HostHalf /\ Host \in Nat /\ Host > 0
<1> DEFINE L == LaneMod
           H == Half
<1>1. L \in Nat /\ L > 0 /\ H \in Nat /\ H > 0 /\ L = 2 * H
  BY LaneSize
<1>2. Square \in Nat /\ Square > 0 /\ Square >= L /\ H * L \in Nat /\ H * L > 0
  BY <1>1, Product2 DEF Square
<1>3. L * (H * L) \in Nat /\ L * (H * L) > 0 /\ L * (H * L) = Square * H
  <2>1. L * (H * L) \in Nat /\ L * (H * L) > 0
    BY <1>1, <1>2, Product2
  <2> QED
    BY <1>1, <2>1, Z3 DEF Square
<1>4. L * L * L = 2 * (L * (H * L))
  BY <1>1, Z3
<1>5. (2 * (L * (H * L)) + 0) \div 2 = L * (H * L)
  BY <1>3, DivModUnique
<1>6. AccHalf = L * (H * L)
  BY <1>3, <1>4, <1>5 DEF AccHalf
<1>7. HostHalf \in Nat /\ HostHalf > 0 /\ HostHalf >= AccHalf
  BY <1>1, <1>3, <1>6, Product2 DEF HostHalf
<1>8. L * L * L * L = L * (2 * AccHalf)
  BY <1>1, <1>4, <1>6, Z3
<1>9. L * (2 * AccHalf) = 2 * HostHalf
  BY <1>1, <1>3, <1>6, Z3 DEF HostHalf
<1> QED
  BY <1>2, <1>3, <1>6, <1>7, <1>8, <1>9 DEF Host

-----------------------------------------------------------------------------
(* Host integers.  x % Host is the pattern of x.                           *)

Fits(x) == x \in -HostHalf .. HostHalf - 1

LEMMA HostSigned ==
    ASSUME NEW x \in Int
    PROVE  /\ x % Host \in Int64
           /\ Fits(x) => Signed(x % Host, Host) = x
           /\ Signed(x % Host, Host) = Wrap(x, HostHalf)
           /\ Fits(Signed(x % Host, Host))
<1>1. HostHalf \in Nat /\ HostHalf > 0 /\ Host = 2 * HostHalf
  BY AccSize
<1>2. /\ x % (2 * HostHalf) \in 0 .. 2 * HostHalf - 1
      /\ Signed(x % (2 * HostHalf), 2 * HostHalf) = Wrap(x, HostHalf)
  BY ONLY <1>1, SignedMod, x \in Int
<1>3. /\ x \in -HostHalf .. HostHalf - 1 => Wrap(x, HostHalf) = x
      /\ Wrap(x, HostHalf) \in -HostHalf .. HostHalf - 1
  BY ONLY <1>1, WrapFacts, x \in Int
<1> QED
  BY ONLY <1>1, <1>2, <1>3 DEF Fits, Int64

LEMMA LaneSigned ==
    ASSUME NEW x \in Int
    PROVE  Un(x) \in Word /\ Signed(Un(x), LaneMod) = Int16(x) /\ Int16(x) \in Lane
<1>1. Half \in Nat /\ Half > 0 /\ LaneMod = 2 * Half
  BY LaneSize
<1>2. /\ x % (2 * Half) \in 0 .. 2 * Half - 1
      /\ Signed(x % (2 * Half), 2 * Half) = Wrap(x, Half)
  BY ONLY <1>1, SignedMod, x \in Int
<1>3. Wrap(x, Half) \in -Half .. Half - 1
  BY ONLY <1>1, WrapFacts, x \in Int
<1> QED
  BY ONLY <1>1, <1>2, <1>3 DEF Un, Word, Int16, Lane

LEMMA LaneInt16 ==
    ASSUME NEW x \in Lane
    PROVE  Int16(x) = x /\ x \in Int
<1>1. Half \in Nat /\ Half > 0 /\ x \in Int
  BY LaneSize DEF Lane
<1> QED
  BY ONLY <1>1, WrapFacts, x \in Lane DEF Int16, Lane

LEMMA LanePattern ==
    ASSUME NEW p \in Word
    PROVE  /\ Signed(p, LaneMod) \in Lane /\ Un(Signed(p, LaneMod)) = p
           /\ Un(p) = p /\ Signed(p, LaneMod) = Int16(p)
<1>1. Half \in Nat /\ Half > 0 /\ LaneMod = 2 * Half /\ p \in 0 .. 2 * Half - 1 /\ p \in Int
  BY LaneSize DEF Word
<1>2. /\ Signed(p, 2 * Half) \in -Half .. Half - 1
      /\ Signed(p, 2 * Half) % (2 * Half) = p
  BY ONLY <1>1, SignedFacts
<1>3. LaneMod * 0 + p = p /\ (LaneMod * 0 + p) % LaneMod = p
  BY <1>1, DivModUnique
<1>4. Un(p) = p
  BY <1>3 DEF Un
<1> QED
  BY ONLY <1>1, <1>2, <1>4, LaneSigned DEF Un, Lane

LEMMA PlusIs ==
    ASSUME NEW x \in Int, NEW y \in Int
    PROVE  /\ Plus(x % Host, y % Host) = (x + y) % Host
           /\ Minus(x % Host, y % Host) = (x - y) % Host
           /\ Plus(x % Host, y) = (x + y) % Host
           /\ Minus(x % Host, y) = (x - y) % Host
<1> DEFINE qx == x \div Host
           qy == y \div Host
<1>1. Host \in Nat /\ Host > 0
  BY AccSize
<1>2. /\ x % Host \in Int /\ qx \in Int /\ x = Host * qx + (x % Host)
      /\ y % Host \in Int /\ qy \in Int /\ y = Host * qy + (y % Host)
  BY <1>1, DivMod
<1> HIDE DEF qx, qy
<1>3. Host * (-qx) = -(Host * qx) /\ Host * (-qy) = -(Host * qy)
      /\ Host * (qy - qx) = Host * qy - Host * qx
      /\ Host * (-qx - qy) = -(Host * qx) - Host * qy
  BY <1>1, <1>2, Z3
<1>4. /\ (x % Host) + (y % Host) = (x + y) + Host * (-qx - qy)
      /\ (x % Host) - (y % Host) = (x - y) + Host * (qy - qx)
      /\ (x % Host) + y = (x + y) + Host * (-qx)
      /\ (x % Host) - y = (x - y) + Host * (-qx)
  BY <1>1, <1>2, <1>3
<1>5. \A a, k \in Int : (a + Host * k) % Host = a % Host
  BY <1>1, ModShift
<1>6. x + y \in Int /\ x - y \in Int /\ -qx \in Int /\ qy - qx \in Int /\ -qx - qy \in Int
  BY <1>2
<1> QED
  BY ONLY <1>4, <1>5, <1>6 DEF Plus, Minus

LEMMA TimesIs ==
    ASSUME NEW x \in Int, NEW y \in Int, Fits(x), Fits(y)
    PROVE  Times(x % Host, y % Host) = (x * y) % Host
  BY HostSigned DEF Times

LEMMA ShlIs ==
    ASSUME NEW x \in Int, NEW k \in Int, Fits(x)
    PROVE  Shl(x % Host, k) = (x * k) % Host
  BY HostSigned DEF Shl

LEMMA AShrIs ==
    ASSUME NEW x \in Int, NEW k \in Nat, k > 0, Fits(x)
    PROVE  AShr(x % Host, k) = (x \div k) % Host
  BY HostSigned DEF AShr

\* Shifting right brings a number closer to zero.
LEMMA DivFits ==
    ASSUME NEW x \in Int, NEW k \in Nat, k > 0, NEW h \in Nat, h > 0, x \in -h .. h - 1
    PROVE  x \div k \in -h .. h - 1
<1> DEFINE q == x \div k
<1>1. x % k \in 0 .. k - 1 /\ q \in Int /\ x = k * q + (x % k)
  BY DivMod
<1> HIDE DEF q
<1>2. CASE q >= 0
  <2>1. k * q >= q
    BY <1>1, <1>2, Z3
  <2> QED
    BY <1>1, <1>2, <2>1 DEF q
<1>3. CASE q < 0
  <2>1. k * (q + 1) <= q + 1
    BY <1>1, <1>3, Z3
  <2>2. k * (q + 1) = k * q + k
    BY <1>1, Z3
  <2> QED
    BY <1>1, <1>3, <2>1, <2>2 DEF q
<1> QED
  BY <1>1, <1>2, <1>3

-----------------------------------------------------------------------------
(* The idioms rspFunc builds out of these.                                 *)

\* Out by a lane to the left and back cuts a number down to an accumulator.
LEMMA Sext48Is ==
    ASSUME NEW x \in Int, Fits(x)
    PROVE  IrSext48(x % Host) = Sext48(x) % Host /\ Sext48(x) \in Acc
<1> DEFINE w == Sext48(x)
           y == x * LaneMod
<1>1. /\ LaneMod \in Nat /\ LaneMod > 0 /\ AccHalf \in Nat /\ AccHalf > 0
      /\ HostHalf \in Nat /\ HostHalf > 0
  BY LaneSize, AccSize
<1>2. PICK k \in Int : x = w + 2 * AccHalf * k
  BY ONLY <1>1, WrapFacts, x \in Int DEF Sext48
<1>3. w \in -AccHalf .. AccHalf - 1
  BY ONLY <1>1, WrapFacts, x \in Int DEF Sext48
<1> HIDE DEF w
<1>4. y \in Int /\ w \in Int /\ w * LaneMod \in Int /\ y = w * LaneMod + 2 * HostHalf * k
  <2>1. w \in Int /\ y \in Int /\ w * LaneMod \in Int
    BY <1>1, <1>3
  <2>2. x * LaneMod = w * LaneMod + (2 * AccHalf * k) * LaneMod
    BY <1>1, <1>2, <2>1, Z3
  <2>3. (2 * AccHalf * k) * LaneMod = 2 * (LaneMod * AccHalf) * k
    BY <1>1, <1>2, Z3
  <2> QED
    BY <2>1, <2>2, <2>3 DEF HostHalf
<1>5. w * LaneMod \in -HostHalf .. HostHalf - 1
  <2>1. (AccHalf + w) * LaneMod >= 0 /\ (AccHalf - 1 - w) * LaneMod >= 0
    BY <1>1, <1>3, Z3
  <2>2. /\ (AccHalf + w) * LaneMod = HostHalf + w * LaneMod
        /\ (AccHalf - 1 - w) * LaneMod = HostHalf - LaneMod - w * LaneMod
    BY <1>1, <1>3, Z3 DEF HostHalf
  <2> QED
    BY <1>1, <1>4, <2>1, <2>2
<1>6. Wrap(y, HostHalf) = w * LaneMod
  <2>1. Wrap(w * LaneMod + 2 * HostHalf * k, HostHalf) = Wrap(w * LaneMod, HostHalf)
    BY ONLY <1>1, <1>4, WrapFacts, k \in Int
  <2>2. Wrap(w * LaneMod, HostHalf) = w * LaneMod
    BY ONLY <1>1, <1>4, <1>5, WrapFacts
  <2> QED
    BY <1>4, <2>1, <2>2
<1>7. Signed(y % Host, Host) = w * LaneMod
  BY <1>4, <1>6, HostSigned
<1>8. Shl(x % Host, LaneMod) = y % Host
  BY <1>1, ShlIs
<1>9. (w * LaneMod) \div LaneMod = w
  <2>1. (LaneMod * w + 0) \div LaneMod = w
    BY <1>1, <1>3, DivModUnique
  <2> QED
    BY <1>1, <1>3, <2>1
<1>10. AShr(y % Host, LaneMod) = w % Host
  BY <1>7, <1>9 DEF AShr
<1> QED
  BY <1>3, <1>8, <1>10 DEF IrSext48, w, Acc

LEMMA TruncIs ==
    ASSUME NEW x \in Int
    PROVE  Trunc(x % Host) = Un(x) /\ Un(x) \in Word
<1> DEFINE K == 2 * AccHalf
<1>1. LaneMod \in Nat /\ LaneMod > 0 /\ K \in Nat /\ K > 0
  BY LaneSize, AccSize
<1>2. Host = LaneMod * K
  BY <1>1, AccSize, Z3 DEF HostHalf
<1>3. Host \in Nat /\ Host > 0
  BY AccSize
<1>4. (x % (LaneMod * K)) % LaneMod = x % LaneMod
  BY ONLY <1>1, <1>2, <1>3, ModMod, x \in Int
<1> QED
  BY <1>2, <1>4, LaneSigned DEF Trunc, Un

\* Numbers that fit a lane, or an accumulator, fit the host.
LEMMA SmallFits ==
    /\ \A x \in Lane : x \in Int /\ Fits(x)
    /\ \A x \in Acc : x \in Int /\ Fits(x)
    /\ Half <= AccHalf
<1>1. Half * LaneMod >= Half /\ LaneMod * (Half * LaneMod) >= Half * LaneMod
  BY LaneSize, AccSize, Product2
<1> QED
  BY <1>1, LaneSize, AccSize DEF Lane, Acc, Fits

LEMMA SaturatedIs ==
    ASSUME NEW x \in Int, Fits(x)
    PROVE  Saturated(x % Host) = Un(Clamp(x)) /\ Clamp(x) \in Lane
<1>1. /\ Half \in Nat /\ Half >= 2
      /\ -Half \in Int /\ Fits(-Half) /\ Half - 1 \in Int /\ Fits(Half - 1)
  BY LaneSize, SmallFits DEF Lane
<1>2. Signed(x % Host, Host) = x
  BY HostSigned
<1> DEFINE y == IF x < -Half THEN -Half ELSE x
<1>3. SMax(x % Host, -Half) = y % Host
  BY <1>2 DEF SMax
<1>4. y \in Int /\ Fits(y)
  BY <1>1
<1>5. Signed(y % Host, Host) = y
  BY <1>4, HostSigned
<1>6. SMin(y % Host, Half - 1) = (IF y > Half - 1 THEN Half - 1 ELSE y) % Host
  BY <1>5 DEF SMin
<1>7. (IF y > Half - 1 THEN Half - 1 ELSE y) = Clamp(x) /\ Clamp(x) \in Lane
  BY <1>1 DEF Clamp, Lane
<1> QED
  BY <1>3, <1>6, <1>7, TruncIs, LaneInt16 DEF Saturated

LEMMA SatMidIs ==
    ASSUME NEW x \in Int, Fits(x)
    PROVE  SatMid(x % Host) = Un(Mid(x)) /\ Mid(x) \in Lane
<1>1. LaneMod \in Nat /\ LaneMod > 0 /\ HostHalf \in Nat /\ HostHalf > 0
  BY LaneSize, AccSize
<1>2. x \div LaneMod \in Int /\ Fits(x \div LaneMod)
  BY <1>1, DivMod, DivFits DEF Fits
<1> QED
  BY <1>1, <1>2, AShrIs, SaturatedIs DEF SatMid, Mid

LEMMA ClampLowIs ==
    ASSUME NEW x \in Int, Fits(x)
    PROVE  IrClampLow(x % Host) = Un(ClampLow(x)) /\ ClampLow(x) \in Lane
<1> DEFINE half == LaneMod * Half
<1>1. LaneMod \in Nat /\ LaneMod >= 4 /\ Half \in Nat /\ Half >= 2 /\ half \in Int
  BY LaneSize
<1>2. Signed(x % Host, Host) = x
  BY HostSigned
<1>3. Un(0) = 0 /\ Un(-1) = LaneMod - 1
  <2>1. (LaneMod * 0 + 0) % LaneMod = 0 /\ (LaneMod * (-1) + (LaneMod - 1)) % LaneMod = LaneMod - 1
    BY <1>1, DivModUnique
  <2> QED
    BY <1>1, <2>1 DEF Un
<1>4. Un(Int16(x)) = Un(x) /\ Int16(x) \in Lane
  BY LaneSigned, LanePattern
<1>5. 0 \in Lane /\ -1 \in Lane
  BY <1>1 DEF Lane
<1>6. Trunc(x % Host) = Un(x)
  BY TruncIs
<1> HIDE DEF half
<1>7. x > half - 1 <=> x >= half
  BY <1>1
<1> QED
  BY <1>2, <1>3, <1>4, <1>5, <1>6, <1>7 DEF IrClampLow, ClampLow, half

\* Another low slice, on the pattern and on the number.
LEMMA SetAccLowIs ==
    ASSUME NEW a \in Acc, NEW x \in Int
    PROVE  SetAccLow(a % Host, Un(x)) = WithLow(a, x) % Host /\ WithLow(a, x) \in Acc
<1> DEFINE L == LaneMod
           K == Half * LaneMod
           q == a \div L
           w == Un(x)
           b == WithLow(a, x)
<1>1. /\ L \in Nat /\ L > 0 /\ K \in Nat /\ K > 0 /\ AccHalf = L * K
      /\ AccHalf \in Nat /\ Host \in Nat /\ Host > AccHalf
  BY LaneSize, AccSize
<1>2. a \in Int /\ a >= -(L * K) /\ a <= L * K - 1
  BY <1>1 DEF Acc
<1>3. Un(a) \in 0 .. L - 1 /\ q \in Int /\ a = L * q + Un(a)
  BY <1>1, <1>2, DivMod DEF Un
<1>4. w \in 0 .. L - 1
  BY LaneSigned DEF Word
<1> HIDE DEF L, K, q, w
<1>5. b = L * q + w /\ b \in Int
  BY <1>1, <1>2, <1>3, <1>4 DEF WithLow, w
<1>6. L * (q + K) = L * q + L * K /\ L * (q - K) = L * q - L * K
  BY <1>1, <1>3, Distribute
<1>7. q + K >= 0 /\ q - K <= -1
  <2>1. q + K <= -1 => L * (q + K) <= -L
    BY <1>1, <1>3, MulStep
  <2>2. q - K >= 0 => L * (q - K) >= 0
    BY <1>1, <1>3, Z3
  <2> QED
    BY <1>1, <1>2, <1>3, <1>6, <2>1, <2>2
<1>8. b \in Acc
  <2>1. L * (q + K) >= 0 /\ L * (q - K) <= -L
    <3>1. q - K <= -1 => L * (q - K) <= -L
      BY <1>1, <1>3, MulStep
    <3>2. L * (q + K) >= 0
      <4>1. q + K \in Nat
        BY <1>1, <1>3, <1>7
      <4> QED
        BY ONLY <1>1, <4>1
    <3> QED
      BY <1>7, <3>1, <3>2
  <2>2. L * q \in Int /\ L * K \in Int
    BY <1>1, <1>3
  <2> QED
    BY <1>1, <1>4, <1>5, <1>6, <2>1, <2>2 DEF Acc
<1>9. \A y \in Acc : y % Host = IF y < 0 THEN y + Host ELSE y
  <2> TAKE y \in Acc
  <2>1. y \in Int /\ y >= -AccHalf /\ y <= AccHalf - 1
    BY <1>1 DEF Acc
  <2>2. CASE y < 0
    <3>1. Host * (-1) + (y + Host) = y /\ (Host * (-1) + (y + Host)) % Host = y + Host
      BY <1>1, <2>1, <2>2, DivModUnique
    <3> QED
      BY <3>1, <2>2
  <2>3. CASE y >= 0
    <3>1. Host * 0 + y = y /\ (Host * 0 + y) % Host = y
      BY <1>1, <2>1, <2>3, DivModUnique
    <3> QED
      BY <2>1, <3>1, <2>3
  <2> QED
    BY <2>1, <2>2, <2>3
<1>10. a < 0 <=> b < 0
  <2>1. q >= 0 => L * q >= 0
    BY <1>1, <1>3, Z3
  <2>2. q <= -1 => L * q <= -L
    BY <1>1, <1>3, MulStep
  <2> QED
    BY <1>1, <1>3, <1>4, <1>5, <2>1, <2>2
<1>11. Trunc(a % Host) = Un(a)
  BY <1>2, TruncIs
<1>12. (a % Host) - Un(a) + w = b % Host
  BY <1>1, <1>2, <1>3, <1>4, <1>5, <1>8, <1>9, <1>10
<1> QED
  BY <1>8, <1>11, <1>12 DEF SetAccLow, w

-----------------------------------------------------------------------------
(* Products. *)

LEMMA MulBound ==
    ASSUME NEW m \in Nat, NEW n \in Nat, NEW x \in -m .. m, NEW y \in -n .. n
    PROVE  x * y \in -(m * n) .. m * n
<1>1. (m - x) * (n + y) >= 0 /\ (m + x) * (n - y) >= 0
      /\ (m - x) * (n - y) >= 0 /\ (m + x) * (n + y) >= 0
  BY Z3
<1>2. /\ (m - x) * (n + y) = m * n + m * y - x * n - x * y
      /\ (m + x) * (n - y) = m * n - m * y + x * n - x * y
      /\ (m - x) * (n - y) = m * n - m * y - x * n + x * y
      /\ (m + x) * (n + y) = m * n + m * y + x * n + x * y
  BY Z3
<1>3. m * n \in Int /\ m * y \in Int /\ x * n \in Int /\ x * y \in Int
  OBVIOUS
<1> QED
  BY ONLY <1>1, <1>2, <1>3

Largest == (Half * Half) * LaneMod

\* Sums of a few products stay inside the host integer.
LEMMA LargestSize ==
    /\ Half * Half \in Nat /\ Half * Half >= Half
    /\ Largest \in Nat /\ Largest >= LaneMod
    /\ Largest >= 2 * (Half * Half) /\ Largest >= Half * LaneMod
    /\ AccHalf = 2 * Largest /\ HostHalf >= 8 * Largest
<1>1. Half \in Nat /\ Half >= 2 /\ LaneMod \in Nat /\ LaneMod >= 4 /\ LaneMod = 2 * Half
  BY LaneSize
<1> DEFINE HH == Half * Half
<1>2. HH \in Nat /\ HH >= Half
  BY <1>1, Product2
<1>3. Largest \in Nat /\ Largest >= LaneMod /\ Largest >= 4 * HH
  <2>1. Largest = HH * LaneMod
    BY DEF Largest
  <2>2. HH * LaneMod \in Nat /\ HH * LaneMod >= LaneMod
    BY <1>1, <1>2, Product2
  <2>3. HH * (LaneMod - 4) >= 0 /\ HH * (LaneMod - 4) = HH * LaneMod - 4 * HH
    BY <1>1, <1>2, Z3
  <2> QED
    BY <1>2, <2>1, <2>2, <2>3
<1>4. Largest = Half * (Half * LaneMod)
  BY <1>1, Z3 DEF Largest
<1>5. Half * (Half * LaneMod) >= Half * LaneMod
  BY <1>1, AccSize, Product2
<1>6. AccHalf = 2 * Largest
  BY <1>1, AccSize, Z3 DEF Largest
<1>7. HostHalf >= 4 * AccHalf
  <2>1. (LaneMod - 4) * AccHalf >= 0 /\ (LaneMod - 4) * AccHalf = LaneMod * AccHalf - 4 * AccHalf
    BY <1>1, AccSize, Z3
  <2> QED
    BY <1>1, <2>1, AccSize DEF HostHalf
<1> QED
  BY <1>2, <1>3, <1>4, <1>5, <1>6, <1>7

LEMMA ProductBound ==
    ASSUME NEW fn \in Products, NEW s \in Lane, NEW t \in Lane
    PROVE  Product(fn, s, t) \in -Largest .. Largest
<1>1. /\ Half \in Nat /\ Half > 0 /\ LaneMod \in Nat /\ LaneMod > 0
      /\ s \in -Half .. Half /\ t \in -Half .. Half /\ s \in Int /\ t \in Int
  BY LaneSize DEF Lane
<1>2. /\ Un(s) \in 0 .. LaneMod - 1 /\ Un(t) \in 0 .. LaneMod - 1
      /\ Un(s) \in -LaneMod .. LaneMod /\ Un(t) \in -LaneMod .. LaneMod
  BY <1>1, LaneSigned DEF Word
<1>3. CASE fn \in {"vmulf", "vmacf"}
  <2>1. s * t \in -(Half * Half) .. Half * Half
    BY <1>1, MulBound
  <2> QED
    BY <1>1, <1>3, <2>1, LargestSize DEF Product
<1>4. CASE fn = "vmudl"
  <2> DEFINE P == Un(s) * Un(t)
  <2>1. P \in Int /\ P >= 0 /\ P <= LaneMod * LaneMod
    BY <1>1, <1>2, MulBound, Z3
  <2>2. P \div LaneMod \in Int /\ P % LaneMod >= 0 /\ P % LaneMod < LaneMod
        /\ P = LaneMod * (P \div LaneMod) + (P % LaneMod)
    BY <1>1, <2>1, DivMod
  <2> HIDE DEF P
  <2>3. P \div LaneMod >= 0
    BY <1>1, <2>1, <2>2, MulStep
  <2>4. P \div LaneMod <= LaneMod
    <3>1. (P \div LaneMod) - LaneMod >= 1 => LaneMod * ((P \div LaneMod) - LaneMod) >= LaneMod
      BY <1>1, <2>2, MulStep
    <3>2. LaneMod * ((P \div LaneMod) - LaneMod) = LaneMod * (P \div LaneMod) - LaneMod * LaneMod
      BY <1>1, <2>2, Distribute
    <3> QED
      BY <1>1, <2>1, <2>2, <3>1, <3>2
  <2>5. Product(fn, s, t) = P \div LaneMod
    BY <1>4 DEF Product, P
  <2> QED
    BY <1>1, <2>2, <2>3, <2>4, <2>5, LargestSize
<1>5. CASE fn \in {"vmudm", "vmadm"}
  <2>1. s * Un(t) \in -(Half * LaneMod) .. Half * LaneMod
    BY <1>1, <1>2, MulBound
  <2> QED
    BY <1>1, <1>5, <2>1, LargestSize DEF Product
<1>6. CASE fn \in {"vmudn", "vmadn"}
  <2>1. t * Un(s) \in -(Half * LaneMod) .. Half * LaneMod
    BY <1>1, <1>2, MulBound
  <2>2. t * Un(s) = Un(s) * t
    BY <1>1, <1>2
  <2> QED
    BY <1>1, <1>6, <2>1, <2>2, LargestSize DEF Product
<1>7. CASE fn \in {"vmudh", "vmadh"}
  <2>1. s * t \in -(Half * Half) .. Half * Half
    BY <1>1, MulBound
  <2>2. (s * t) * LaneMod \in -Largest .. Largest
    <3>1. LaneMod \in -LaneMod .. LaneMod
      BY <1>1
    <3> QED
      BY ONLY <1>1, <2>1, <3>1, MulBound, LargestSize DEF Largest
  <2> QED
    BY <1>7, <2>2 DEF Product
<1> QED
  BY <1>3, <1>4, <1>5, <1>6, <1>7 DEF Products, FromZero, Onto

\* The operands of doOp.
LEMMA Operands ==
    ASSUME NEW s \in Lane
    PROVE  /\ s \in Int /\ Fits(s) /\ SExt(Un(s)) = s % Host
           /\ Un(s) \in Word /\ Un(s) \in Int /\ Fits(Un(s)) /\ ZExt(Un(s)) = Un(s) % Host
           /\ Signed(Un(s), LaneMod) = s
<1>1. s \in Int /\ Int16(s) = s /\ Fits(s)
  BY LaneInt16, SmallFits
<1>2. Un(s) \in Word /\ Signed(Un(s), LaneMod) = s
  BY <1>1, LaneSigned
<1>3. LaneMod \in Nat /\ LaneMod <= HostHalf /\ HostHalf \in Nat /\ Host = 2 * HostHalf
  BY LaneSize, AccSize, LargestSize
<1>4. Un(s) \in Int /\ Fits(Un(s)) /\ Un(s) \in 0 .. Host - 1
  BY <1>2, <1>3 DEF Word, Fits
<1>5. (Host * 0 + Un(s)) % Host = Un(s) /\ Host * 0 + Un(s) = Un(s)
  BY <1>4, AccSize, DivModUnique
<1> QED
  BY <1>1, <1>2, <1>4, <1>5 DEF SExt, ZExt

LEMMA IrProductIs ==
    ASSUME NEW fn \in Products, NEW s \in Lane, NEW t \in Lane
    PROVE  IrProduct(fn, Un(s), Un(t)) = Product(fn, s, t) % Host
<1> DEFINE su == Un(s)
           tu == Un(t)
<1>1. /\ s \in Int /\ Fits(s) /\ SExt(su) = s % Host
      /\ su \in Int /\ Fits(su) /\ ZExt(su) = su % Host
      /\ t \in Int /\ Fits(t) /\ SExt(tu) = t % Host
      /\ tu \in Int /\ Fits(tu) /\ ZExt(tu) = tu % Host
  BY Operands
<1>2. /\ Times(SExt(su), SExt(tu)) = (s * t) % Host
      /\ Times(ZExt(su), ZExt(tu)) = (su * tu) % Host
      /\ Times(SExt(su), ZExt(tu)) = (s * tu) % Host
      /\ Times(ZExt(su), SExt(tu)) = (su * t) % Host
  BY <1>1, TimesIs
<1>3. s * t \in Int /\ Fits(s * t) /\ su * tu \in 0 .. HostHalf - 1
  <2>1. s \in -Half .. Half /\ t \in -Half .. Half /\ Half \in Nat
    BY LaneSize DEF Lane
  <2>2. s * t \in -(Half * Half) .. Half * Half
    BY <2>1, MulBound
  <2>3. su \in -LaneMod .. LaneMod /\ tu \in -LaneMod .. LaneMod /\ LaneMod \in Nat
        /\ su >= 0 /\ tu >= 0
    BY LaneSize, LaneSigned, <1>1 DEF Word
  <2>4. su * tu \in -Square .. Square /\ su * tu >= 0
    BY <2>3, MulBound, Z3 DEF Square
  <2>5. Square < HostHalf
    <3>1. AccHalf >= 2 * Square
      BY AccSize, LaneSize, Z3
    <3> QED
      BY <3>1, AccSize
  <2> QED
    BY <1>1, <2>2, <2>4, <2>5, LargestSize, AccSize, LaneSize DEF Fits
<1> HIDE DEF su, tu
<1>4. CASE fn \in {"vmulf", "vmacf"}
  BY <1>2, <1>3, <1>4, ShlIs DEF IrProduct, Product, su, tu
<1>5. CASE fn = "vmudl"
  <2> DEFINE P == su * tu
  <2>1. P % Host = P /\ (P \div LaneMod) \in 0 .. Host - 1
    <3>1. P \in 0 .. Host - 1 /\ Host \in Nat /\ Host > 0 /\ P \in Nat
      BY <1>3, AccSize
    <3>2. Host * 0 + P = P /\ (Host * 0 + P) % Host = P
      BY <3>1, DivModUnique
    <3>3. P \div LaneMod \in Nat /\ P \div LaneMod <= P
      BY <3>1, DivOfNat, LaneSize
    <3> QED
      BY ONLY <3>1, <3>2, <3>3
  <2> DEFINE Q == P \div LaneMod
  <2>2. Host * 0 + Q = Q /\ (Host * 0 + Q) % Host = Q
    BY <2>1, AccSize, DivModUnique
  <2>3. IrProduct(fn, Un(s), Un(t)) = LShr(P % Host, LaneMod) /\ Product(fn, s, t) = Q
    BY <1>2, <1>5 DEF IrProduct, Product, su, tu
  <2> QED
    BY ONLY <2>1, <2>2, <2>3 DEF LShr
<1>6. CASE fn \in {"vmudm", "vmadm"}
  BY <1>2, <1>6 DEF IrProduct, Product, su, tu
<1>7. CASE fn \in {"vmudn", "vmadn"}
  BY <1>2, <1>7 DEF IrProduct, Product, su, tu
<1>8. CASE fn \in {"vmudh", "vmadh"}
  BY <1>2, <1>3, <1>8, ShlIs, LaneSize DEF IrProduct, Product, su, tu
<1> QED
  BY <1>4, <1>5, <1>6, <1>7, <1>8 DEF Products, FromZero, Onto

LEMMA IrAccAfterIs ==
    ASSUME NEW fn \in Products, NEW a \in Acc, NEW s \in Lane, NEW t \in Lane
    PROVE  /\ IrAccAfter(fn, a % Host, Un(s), Un(t)) = AccAfter(fn, a, s, t) % Host
           /\ AccAfter(fn, a, s, t) \in Acc
<1> DEFINE p == Product(fn, s, t)
           onto == IF fn \in Onto THEN a ELSE IF fn = "vmulf" THEN Half ELSE 0
<1>1. p \in Int /\ p >= -Largest /\ p <= Largest /\ Largest \in Nat
  BY ProductBound, LargestSize
<1>2. IrProduct(fn, Un(s), Un(t)) = p % Host
  BY IrProductIs
<1>3. a \in Int /\ a >= -AccHalf /\ a <= AccHalf - 1 /\ AccHalf \in Nat
  BY AccSize DEF Acc
<1>4. Half \in Nat /\ Half <= Largest /\ HostHalf \in Nat
  BY LaneSize, LargestSize, AccSize
<1>5. onto \in Int /\ p + onto \in Int /\ Fits(p + onto) /\ Fits(p)
  BY <1>1, <1>3, <1>4, LargestSize DEF Fits
<1> HIDE DEF p
<1>6. AccAfter(fn, a, s, t) = Sext48(p + onto)
  BY DEF AccAfter, p
<1>7. AccAfter(fn, a, s, t) \in Acc
  BY <1>5, <1>6, Sext48Is
<1>8. CASE fn = "vmudl"
  <2>1. p >= 0 /\ p + onto = p
    <3>1. Un(s) \in Nat /\ Un(t) \in Nat
      BY LaneSize, LaneSigned, LaneInt16 DEF Word
    <3>2. Un(s) * Un(t) \in Nat
      BY ONLY <3>1
    <3>3. (Un(s) * Un(t)) \div LaneMod >= 0
      BY <3>2, LaneSize, DivOfNat
    <3> QED
      BY <1>1, <1>8, <3>3 DEF p, Product, Onto
  <2>2. p \in Acc
    BY <1>1, <2>1, LargestSize, AccSize, LaneSize DEF Acc
  <2>3. Sext48(p) = p
    BY <1>1, <2>2, AccSize, WrapFacts DEF Sext48, Acc
  <2>4. IrAccAfter(fn, a % Host, Un(s), Un(t)) = p % Host
    BY <1>2, <1>8 DEF IrAccAfter, FromZero, Onto
  <2> QED
    BY <1>6, <1>7, <2>1, <2>3, <2>4
<1>9. CASE fn = "vmulf"
  <2>1. IrAccAfter(fn, a % Host, Un(s), Un(t)) = IrSext48(Plus(p % Host, Half))
    BY <1>2, <1>9 DEF IrAccAfter, FromZero, Onto
  <2>2. Plus(p % Host, Half) = (p + onto) % Host
    BY <1>1, <1>4, <1>9, PlusIs DEF Onto
  <2> QED
    BY <1>5, <1>6, <1>7, <2>1, <2>2, Sext48Is
<1>10. CASE fn \in FromZero \ {"vmudl", "vmulf"}
  <2>1. IrAccAfter(fn, a % Host, Un(s), Un(t)) = IrSext48(p % Host) /\ onto = 0
    BY <1>2, <1>10 DEF IrAccAfter, FromZero, Onto
  <2> QED
    BY <1>1, <1>5, <1>6, <1>7, <2>1, Sext48Is
<1>11. CASE fn \in Onto
  <2>1. IrAccAfter(fn, a % Host, Un(s), Un(t)) = IrSext48(Plus(a % Host, p % Host))
    BY <1>2, <1>11 DEF IrAccAfter, FromZero, Onto
  <2>2. Plus(a % Host, p % Host) = (p + onto) % Host
    BY <1>1, <1>3, <1>11, PlusIs
  <2> QED
    BY <1>5, <1>6, <1>7, <2>1, <2>2, Sext48Is
<1> QED
  BY <1>8, <1>9, <1>10, <1>11 DEF Products

-----------------------------------------------------------------------------
(* One lane of one instruction: patterns in, patterns of the right numbers *)
(* out.                                                                    *)

Same(ir, op) ==
    /\ op.res \in Lane /\ op.cell \in Cell
    /\ ir.res = Un(op.res) /\ ir.cell = In(op.cell)

LEMMA CellFields ==
    ASSUME NEW c \in Cell
    PROVE  /\ c.acc \in Acc /\ c.vco_l \in BOOLEAN /\ c.vco_h \in BOOLEAN
           /\ c.vcc_l \in BOOLEAN /\ c.vcc_h \in BOOLEAN /\ c.vce \in BOOLEAN
           /\ In(c) = [acc |-> c.acc % Host, vco_l |-> c.vco_l, vco_h |-> c.vco_h,
                       vcc_l |-> c.vcc_l, vcc_h |-> c.vcc_h, vce |-> c.vce]
  BY DEF Cell, In

LEMMA MultiplySame ==
    ASSUME NEW fn \in Products, NEW c \in Cell, NEW s \in Lane, NEW t \in Lane
    PROVE  Same(IrMultiply(fn, In(c), Un(s), Un(t)), Multiply(fn, c, s, t))
<1> DEFINE a == AccAfter(fn, c.acc, s, t)
           d == [c EXCEPT !.acc = a]
           low == fn \in {"vmudl", "vmudn", "vmadn"}
<1>1. c.acc \in Acc /\ In(c).acc = c.acc % Host
  BY CellFields
<1>2. IrAccAfter(fn, In(c).acc, Un(s), Un(t)) = a % Host /\ a \in Acc
  BY <1>1, IrAccAfterIs
<1>3. a \in Int /\ Fits(a)
  BY <1>2, SmallFits
<1> HIDE DEF a
<1>4. d \in Cell /\ [In(c) EXCEPT !.acc = a % Host] = In(d)
  BY <1>2 DEF Cell, In
<1>5. /\ IrClampLow(a % Host) = Un(ClampLow(a)) /\ ClampLow(a) \in Lane
      /\ SatMid(a % Host) = Un(Mid(a)) /\ Mid(a) \in Lane
  BY <1>3, ClampLowIs, SatMidIs
<1>6. Multiply(fn, c, s, t) = [res |-> IF low THEN ClampLow(a) ELSE Mid(a), cell |-> d]
  BY DEF Multiply, a
<1>7. IrMultiply(fn, In(c), Un(s), Un(t))
        = [res |-> IF low THEN IrClampLow(a % Host) ELSE SatMid(a % Host),
           cell |-> [In(c) EXCEPT !.acc = a % Host]]
  BY <1>2 DEF IrMultiply
<1> QED
  BY <1>4, <1>5, <1>6, <1>7 DEF Same

\* What vadd, vsub and vaddc do once they have their sum, in the interpreter and in IR.
Summed(c, x, carry) == [c EXCEPT !.acc = WithLow(@, x), !.vco_l = carry, !.vco_h = FALSE]
IrSummed(u, x, carry) == [u EXCEPT !.acc = SetAccLow(@, x), !.vco_l = carry, !.vco_h = FALSE]

LEMMA LowSliceSame ==
    ASSUME NEW c \in Cell, NEW x \in Int, NEW carry \in BOOLEAN
    PROVE  /\ Summed(c, x, carry) \in Cell
           /\ IrSummed(In(c), Un(x), carry) = In(Summed(c, x, carry))
<1>1. c.acc \in Acc /\ In(c).acc = c.acc % Host
  BY CellFields
<1>2. SetAccLow(c.acc % Host, Un(x)) = WithLow(c.acc, x) % Host /\ WithLow(c.acc, x) \in Acc
  BY <1>1, SetAccLowIs
<1> QED
  BY <1>1, <1>2 DEF Cell, In, Summed, IrSummed

LEMMA BitInt == \A b \in BOOLEAN : Bit(b) \in 0 .. 1
  BY DEF Bit

LEMMA AddSame ==
    ASSUME NEW fn \in {"vadd", "vsub"}, NEW c \in Cell, NEW s \in Lane, NEW t \in Lane
    PROVE  Same(IrAdd(fn, In(c), Un(s), Un(t)), IF fn = "vadd" THEN Vadd(c, s, t) ELSE Vsub(c, s, t))
<1> DEFINE k == Bit(c.vco_l)
           x == IF fn = "vadd" THEN s + t + k ELSE s - t - k
           d == [c EXCEPT !.acc = WithLow(@, x), !.vco_l = FALSE, !.vco_h = FALSE]
<1>1. s \in Int /\ t \in Int /\ SExt(Un(s)) = s % Host /\ SExt(Un(t)) = t % Host
  BY Operands
<1>2. In(c).vco_l = c.vco_l /\ k \in 0 .. 1
  BY CellFields, BitInt
<1>3. /\ Plus(Plus(s % Host, t % Host), k) = (s + t + k) % Host
      /\ Minus(Minus(s % Host, t % Host), k) = (s - t - k) % Host
  <2>1. /\ Plus(s % Host, t % Host) = (s + t) % Host
        /\ Minus(s % Host, t % Host) = (s - t) % Host
    BY <1>1, PlusIs
  <2>2. k \in Int /\ s + t \in Int /\ s - t \in Int
    BY <1>1, <1>2
  <2> HIDE DEF k
  <2>3. /\ Plus((s + t) % Host, k) = (s + t + k) % Host
        /\ Minus((s - t) % Host, k) = (s - t - k) % Host
    BY <2>2, PlusIs
  <2> QED
    BY <2>1, <2>3
<1>4. x \in Int /\ Fits(x)
  <2>1. /\ s >= -Half /\ s < Half /\ t >= -Half /\ t < Half
        /\ Half \in Nat /\ Half >= 2 /\ Largest \in Nat /\ LaneMod = 2 * Half
    BY LaneSize, LargestSize DEF Lane
  <2>2. HostHalf >= 8 * LaneMod /\ HostHalf \in Nat /\ LaneMod \in Nat
    BY <2>1, LargestSize, AccSize, LaneSize
  <2> QED
    BY <1>1, <1>2, <2>1, <2>2 DEF Fits
<1>5. Saturated(x % Host) = Un(Clamp(x)) /\ Clamp(x) \in Lane /\ Trunc(x % Host) = Un(x)
  BY <1>4, SaturatedIs, TruncIs
<1>6. /\ d \in Cell
      /\ [In(c) EXCEPT !.acc = SetAccLow(@, Un(x)), !.vco_l = FALSE, !.vco_h = FALSE] = In(d)
  BY <1>4, LowSliceSame DEF Summed, IrSummed
<1>7. (IF fn = "vadd" THEN Vadd(c, s, t) ELSE Vsub(c, s, t)) = [res |-> Clamp(x), cell |-> d]
  BY DEF Vadd, Vsub, Add
<1>8. IrAdd(fn, In(c), Un(s), Un(t))
        = [res |-> Saturated(x % Host),
           cell |-> [In(c) EXCEPT !.acc = SetAccLow(@, Trunc(x % Host)),
                                  !.vco_l = FALSE, !.vco_h = FALSE]]
  BY <1>1, <1>2, <1>3 DEF IrAdd
<1> HIDE DEF x, d
<1>9. SetAccLow(In(c).acc, Trunc(x % Host)) = SetAccLow(In(c).acc, Un(x))
  BY <1>5
<1>10. IrAdd(fn, In(c), Un(s), Un(t)) = [res |-> Un(Clamp(x)), cell |-> In(d)]
  BY <1>5, <1>6, <1>8, <1>9
<1> QED
  BY <1>5, <1>6, <1>7, <1>10 DEF Same

LEMMA VaddcSame ==
    ASSUME NEW c \in Cell, NEW s \in Lane, NEW t \in Lane
    PROVE  Same(IrVaddc(In(c), Un(s), Un(t)), Vaddc(c, s, t))
<1> DEFINE x == Un(s) + Un(t)
           carry == x >= LaneMod
           d == [c EXCEPT !.acc = WithLow(@, x), !.vco_l = carry, !.vco_h = FALSE]
<1>1. /\ Un(s) \in 0 .. LaneMod - 1 /\ ZExt(Un(s)) = Un(s) % Host
      /\ Un(t) \in 0 .. LaneMod - 1 /\ ZExt(Un(t)) = Un(t) % Host
      /\ LaneMod \in Nat /\ LaneMod > 0
  BY Operands, LaneSize DEF Word
<1>2. x \in Int /\ x >= 0 /\ x < 2 * LaneMod
  BY <1>1
<1>3. Plus(ZExt(Un(s)), ZExt(Un(t))) = x % Host /\ x % Host = x
  <2>1. Plus(Un(s) % Host, Un(t) % Host) = x % Host
    BY <1>1, PlusIs
  <2>2. Host \in Nat /\ Host > 2 * LaneMod
    BY <1>1, AccSize, LargestSize
  <2> HIDE DEF x
  <2>3. x \in 0 .. Host - 1 /\ Host > 0
    BY <1>1, <1>2, <2>2
  <2>4. Host * 0 + x = x /\ (Host * 0 + x) % Host = x
    BY <2>2, <2>3, DivModUnique
  <2> QED
    BY <1>1, <2>1, <2>4
<1> HIDE DEF x
<1>4. (x \div LaneMod) % 2 # 0 <=> carry
  <2>1. CASE carry
    <3>1. x - LaneMod \in 0 .. LaneMod - 1 /\ LaneMod * 1 + (x - LaneMod) = x
      BY <1>1, <1>2, <2>1
    <3>2. (LaneMod * 1 + (x - LaneMod)) \div LaneMod = 1
      BY <1>1, <3>1, DivModUnique
    <3> QED
      BY <1>1, <1>2, <2>1, <3>1, <3>2, LaneSize DEF Word
  <2>2. CASE ~carry
    <3>1. x \in 0 .. LaneMod - 1 /\ LaneMod * 0 + x = x
      BY <1>1, <1>2, <2>2
    <3>2. (LaneMod * 0 + x) \div LaneMod = 0
      BY <1>1, <3>1, DivModUnique
    <3> QED
      BY <2>2, <3>1, <3>2
  <2> QED
    BY <2>1, <2>2
<1>5. Trunc(x % Host) = Un(x) /\ Int16(x) \in Lane /\ Un(Int16(x)) = Un(x)
  BY <1>2, TruncIs, LaneSigned, LanePattern
<1> carry \in BOOLEAN
  OBVIOUS
<1>6. /\ d \in Cell
      /\ [In(c) EXCEPT !.acc = SetAccLow(@, Un(x)), !.vco_l = carry, !.vco_h = FALSE] = In(d)
  <2>1. carry \in BOOLEAN
    OBVIOUS
  <2> HIDE DEF carry
  <2>2. /\ Summed(c, x, carry) \in Cell
        /\ IrSummed(In(c), Un(x), carry) = In(Summed(c, x, carry))
    BY ONLY c \in Cell, <1>2, <2>1, LowSliceSame
  <2> QED
    BY ONLY <2>2 DEF Summed, IrSummed, d
<1>7. Vaddc(c, s, t) = [res |-> Int16(x), cell |-> d]
  BY DEF Vaddc, x
<1>8. IrVaddc(In(c), Un(s), Un(t))
        = [res |-> Trunc(x),
           cell |-> [In(c) EXCEPT !.acc = SetAccLow(@, Trunc(x)),
                                  !.vco_l = (x \div LaneMod) % 2 # 0, !.vco_h = FALSE]]
  BY <1>3 DEF IrVaddc
<1> HIDE DEF d
<1>9. Trunc(x) = Un(x)
  BY <1>3, <1>5
<1>10. [In(c) EXCEPT !.acc = SetAccLow(@, Trunc(x)), !.vco_l = (x \div LaneMod) % 2 # 0,
                     !.vco_h = FALSE]
         = [In(c) EXCEPT !.acc = SetAccLow(@, Un(x)), !.vco_l = carry, !.vco_h = FALSE]
  <2>1. ((x \div LaneMod) % 2 # 0) = carry
    BY <1>4
  <2> HIDE DEF carry
  <2> QED
    BY <1>9, <2>1
<1>11. IrVaddc(In(c), Un(s), Un(t)) = [res |-> Un(x), cell |-> In(d)]
  BY <1>6, <1>8, <1>9, <1>10
<1> QED
  BY <1>5, <1>6, <1>7, <1>11 DEF Same

LEMMA SliceSame ==
    ASSUME NEW a \in Acc, NEW e \in 0 .. 15
    PROVE  IrSlice(a % Host, e) = Un(Slice(a, e)) /\ Slice(a, e) \in Lane
<1>1. a \in Int /\ Fits(a) /\ LaneMod \in Nat /\ LaneMod > 0
      /\ LaneMod * LaneMod \in Nat /\ LaneMod * LaneMod > 0
  BY SmallFits, LaneSize, AccSize DEF Square
<1>2. /\ a \div LaneMod \in Int /\ a \div (LaneMod * LaneMod) \in Int
  BY <1>1, DivMod
<1>3. /\ AShr(a % Host, LaneMod) = (a \div LaneMod) % Host
      /\ AShr(a % Host, LaneMod * LaneMod) = (a \div (LaneMod * LaneMod)) % Host
  BY <1>1, AShrIs
<1>4. /\ Trunc((a \div LaneMod) % Host) = Un(a \div LaneMod)
      /\ Trunc((a \div (LaneMod * LaneMod)) % Host) = Un(a \div (LaneMod * LaneMod))
      /\ Trunc(a % Host) = Un(a)
  BY <1>1, <1>2, TruncIs
<1>5. \A y \in Int : Int16(y) \in Lane /\ Un(Int16(y)) = Un(y)
  BY LaneSigned, LanePattern
<1>6. Un(0) = 0 /\ 0 \in Lane
  <2>1. (LaneMod * 0 + 0) % LaneMod = 0
    BY <1>1, DivModUnique
  <2> QED
    BY <1>1, <2>1, LaneSize DEF Un, Lane
<1> QED
  BY <1>1, <1>2, <1>3, <1>4, <1>5, <1>6 DEF IrSlice, Slice

LEMMA SelectedSame ==
    ASSUME NEW c \in Cell, NEW res \in Lane
    PROVE  Same(IrSelected(In(c), Un(res)), Selected(c, res))
<1>1. c.acc \in Acc /\ In(c).acc = c.acc % Host /\ res \in Int
  BY CellFields, SmallFits
<1>2. SetAccLow(c.acc % Host, Un(res)) = WithLow(c.acc, res) % Host
      /\ WithLow(c.acc, res) \in Acc
  BY <1>1, SetAccLowIs
<1> DEFINE d == [c EXCEPT !.acc = WithLow(@, res)]
<1>3. d \in Cell /\ [In(c) EXCEPT !.acc = SetAccLow(@, Un(res))] = In(d)
  BY <1>1, <1>2 DEF Cell, In
<1> QED
  BY <1>3 DEF Same, Selected, IrSelected

\* Equal patterns are equal numbers, and patterns are ordered as unsigned ones.
LEMMA VgeSame ==
    ASSUME NEW c \in Cell, NEW s \in Lane, NEW t \in Lane
    PROVE  Same(IrVge(In(c), Un(s), Un(t)), Vge(c, s, t))
<1> DEFINE ge == s > t \/ (s = t /\ ~(c.vco_h /\ c.vco_l))
           d == [c EXCEPT !.vcc_l = ge, !.vcc_h = FALSE, !.vco_l = FALSE, !.vco_h = FALSE]
           res == IF ge THEN s ELSE t
<1>1. Signed(Un(s), LaneMod) = s /\ Signed(Un(t), LaneMod) = t
  BY Operands
<1>2. In(c).vco_h = c.vco_h /\ In(c).vco_l = c.vco_l
  BY CellFields
<1>3. Un(s) = Un(t) <=> s = t
  BY <1>1
<1>4. d \in Cell /\ [In(c) EXCEPT !.vcc_l = ge, !.vcc_h = FALSE, !.vco_l = FALSE,
                                  !.vco_h = FALSE] = In(d)
  BY DEF Cell, In
<1>5. res \in Lane /\ Un(res) = IF ge THEN Un(s) ELSE Un(t)
  OBVIOUS
<1>6. Vge(c, s, t) = Selected(d, res)
  BY DEF Vge
<1>7. IrVge(In(c), Un(s), Un(t)) = IrSelected(In(d), Un(res))
  BY <1>1, <1>2, <1>3, <1>4, <1>5 DEF IrVge
<1> HIDE DEF d, res
<1> QED
  BY <1>4, <1>5, <1>6, <1>7, SelectedSame

LEMMA VclSame ==
    ASSUME NEW c \in Cell, NEW s \in Lane, NEW t \in Lane
    PROVE  Same(IrVcl(In(c), Un(s), Un(t)), Vcl(c, s, t))
<1> DEFINE le == IF c.vce THEN Un(s) + Un(t) <= LaneMod ELSE Un(s) + Un(t) = 0
           ge == Un(s) >= Un(t)
           vccL == IF c.vco_l /\ ~c.vco_h THEN le ELSE c.vcc_l
           vccH == IF ~c.vco_l /\ ~c.vco_h THEN ge ELSE c.vcc_h
           negated == Int16(-Un(t))
           res == IF c.vco_l THEN (IF vccL THEN negated ELSE s)
                             ELSE (IF vccH THEN t ELSE s)
           d == [c EXCEPT !.vcc_l = vccL, !.vcc_h = vccH,
                          !.vco_l = FALSE, !.vco_h = FALSE, !.vce = FALSE]
<1>1. Un(s) \in Int /\ Un(t) \in Int /\ -Un(t) \in Int
  BY Operands
<1>2. negated \in Lane /\ Un(negated) = (-Un(t)) % LaneMod
  <2>1. negated \in Lane /\ Un(-Un(t)) \in Word
        /\ negated = Signed(Un(-Un(t)), LaneMod)
    BY <1>1, LaneSigned
  <2>2. Un(negated) = Un(-Un(t))
    BY <2>1, LanePattern
  <2> QED
    BY <2>1, <2>2 DEF Un
<1>3. /\ c.vco_l \in BOOLEAN /\ c.vco_h \in BOOLEAN /\ c.vcc_l \in BOOLEAN
      /\ c.vcc_h \in BOOLEAN /\ c.vce \in BOOLEAN
      /\ In(c).vco_l = c.vco_l /\ In(c).vco_h = c.vco_h /\ In(c).vcc_l = c.vcc_l
      /\ In(c).vcc_h = c.vcc_h /\ In(c).vce = c.vce
  BY CellFields
<1>4. le \in BOOLEAN /\ ge \in BOOLEAN
  <2>1. ge \in BOOLEAN
    OBVIOUS
  <2>2. CASE c.vce
    BY <2>2, <2>1
  <2>3. CASE ~c.vce
    BY <2>3, <2>1
  <2> QED
    BY <2>2, <2>3
<1> HIDE DEF le, ge, negated
<1>5. vccL \in BOOLEAN /\ vccH \in BOOLEAN
  BY <1>3, <1>4
<1>6. res \in Lane
  BY <1>2
<1>7. Un(res) = IF c.vco_l THEN (IF vccL THEN (-Un(t)) % LaneMod ELSE Un(s))
                           ELSE (IF vccH THEN Un(t) ELSE Un(s))
  BY <1>2
<1>8. IrVcl(In(c), Un(s), Un(t))
        = IrSelected([In(c) EXCEPT !.vcc_l = vccL, !.vcc_h = vccH, !.vco_l = FALSE,
                                   !.vco_h = FALSE, !.vce = FALSE], Un(res))
  BY <1>3, <1>7 DEF IrVcl, le, ge
<1>9. Vcl(c, s, t) = Selected(d, res)
  <2>1. CASE c.vco_l
    <3> DEFINE e == [[c EXCEPT !.vco_l = FALSE, !.vco_h = FALSE, !.vce = FALSE]
                       EXCEPT !.vcc_l = vccL]
    <3>1. vccL = (IF c.vco_h THEN c.vcc_l ELSE le) /\ vccH = c.vcc_h
      BY <1>3, <2>1
    <3>2. e = d
      BY <3>1 DEF Cell
    <3>3. Vcl(c, s, t) = Selected(e, IF vccL THEN Int16(-Un(t)) ELSE s)
      BY <2>1, <3>1 DEF Vcl, le
    <3>4. res = IF vccL THEN Int16(-Un(t)) ELSE s
      BY <2>1 DEF negated
    <3> HIDE DEF d, e, res, vccL
    <3> QED
      BY <3>2, <3>3, <3>4
  <2>2. CASE ~c.vco_l
    <3> DEFINE e == [[c EXCEPT !.vco_l = FALSE, !.vco_h = FALSE, !.vce = FALSE]
                       EXCEPT !.vcc_h = vccH]
    <3>1. vccH = (IF c.vco_h THEN c.vcc_h ELSE ge) /\ vccL = c.vcc_l
      BY <1>3, <2>2
    <3>2. e = d
      BY <3>1 DEF Cell
    <3>3. Vcl(c, s, t) = Selected(e, IF vccH THEN t ELSE s)
      BY <2>2, <3>1 DEF Vcl, ge
    <3>4. res = IF vccH THEN t ELSE s
      BY <2>2
    <3> HIDE DEF d, e, res, vccH
    <3> QED
      BY <3>2, <3>3, <3>4
  <2> QED
    BY <2>1, <2>2
<1>10. d \in Cell /\ [In(c) EXCEPT !.vcc_l = vccL, !.vcc_h = vccH, !.vco_l = FALSE,
                                   !.vco_h = FALSE, !.vce = FALSE] = In(d)
  <2> HIDE DEF vccL, vccH
  <2> QED
    BY <1>5 DEF Cell, In
<1>11. IrVcl(In(c), Un(s), Un(t)) = IrSelected(In(d), Un(res))
  BY <1>8, <1>10
<1> HIDE DEF d, res
<1> QED
  BY <1>6, <1>9, <1>10, <1>11, SelectedSame

\* The bitwise operations, of patterns.
LEMMA BitwiseSame ==
    ASSUME NEW c \in Cell, NEW s \in Lane, NEW t \in Lane
    PROVE  /\ Same(IrSelected(In(c), BitAnd(Un(s), Un(t))),
                   Selected(c, Int16(And(s, t))))
           /\ Same(IrSelected(In(c), Un(s) + Un(t) - 2 * BitAnd(Un(s), Un(t))),
                   Selected(c, Int16(Xor(s, t))))
<1> DEFINE su == Un(s)
           tu == Un(t)
           both == BitAnd(su, tu)
           xor == su + tu - 2 * both
<1>1. su \in Word /\ tu \in Word
  BY Operands
<1>2. both \in Word /\ both <= su /\ both <= tu /\ su + tu - both \in Word
  BY <1>1, BitAndAssumption
<1> HIDE DEF su, tu, both
<1>3. xor \in Word
  BY <1>1, <1>2, LaneSize DEF Word
<1>4. And(s, t) = both /\ Xor(s, t) = xor
  <2>1. And(s, t) = both
    BY DEF And, both, su, tu
  <2>2. Xor(s, t) = su + tu - both - both
    <3>1. Or(s, t) = su + tu - both
      BY <2>1 DEF Or, su, tu
    <3>2. Xor(s, t) = Or(s, t) - And(s, t)
      BY DEF Xor
    <3> QED
      BY <1>1, <1>2, <2>1, <3>1, <3>2, LaneSize DEF Word
  <2> QED
    BY <1>1, <1>2, <2>1, <2>2, LaneSize DEF Word
<1>5. ASSUME NEW p \in Word
      PROVE  Int16(p) \in Lane /\ Un(Int16(p)) = p
  BY LanePattern
<1> HIDE DEF xor
<1>6. Same(IrSelected(In(c), both), Selected(c, Int16(both)))
  BY <1>2, <1>5, SelectedSame
<1>7. Same(IrSelected(In(c), xor), Selected(c, Int16(xor)))
  BY <1>3, <1>5, SelectedSame
<1> QED
  BY <1>4, <1>6, <1>7 DEF both, su, tu, xor

\* Every operation that has IR of its own.
LEMMA LaneStep ==
    ASSUME NEW fn \in VecFns \cap Emitted, NEW e \in 0 .. 15, NEW c \in Cell,
           NEW s \in Lane, NEW t \in Lane
    PROVE  Same(DoOp(fn, e, In(c), Un(s), Un(t)), LaneOp(fn, e, c, s, t))
<1> USE DEF Products, FromZero, Onto, Selections
<1>1. CASE fn \in Products
  <2>1. DoOp(fn, e, In(c), Un(s), Un(t)) = IrMultiply(fn, In(c), Un(s), Un(t))
    BY <1>1 DEF DoOp
  <2>2. LaneOp(fn, e, c, s, t) = Multiply(fn, c, s, t)
    BY <1>1 DEF LaneOp
  <2> QED
    BY <1>1, <2>1, <2>2, MultiplySame
<1>2. CASE fn \in {"vadd", "vsub"}
  <2>1. DoOp(fn, e, In(c), Un(s), Un(t)) = IrAdd(fn, In(c), Un(s), Un(t))
    BY <1>2 DEF DoOp
  <2>2. LaneOp(fn, e, c, s, t) = IF fn = "vadd" THEN Vadd(c, s, t) ELSE Vsub(c, s, t)
    BY <1>2 DEF LaneOp
  <2> QED
    BY <1>2, <2>1, <2>2, AddSame
<1>3. CASE fn = "vaddc"
  <2>1. DoOp(fn, e, In(c), Un(s), Un(t)) = IrVaddc(In(c), Un(s), Un(t))
    BY <1>3 DEF DoOp
  <2>2. LaneOp(fn, e, c, s, t) = Vaddc(c, s, t)
    BY <1>3 DEF LaneOp
  <2> QED
    BY <2>1, <2>2, VaddcSame
<1>4. CASE fn = "vsar"
  <2>1. DoOp(fn, e, In(c), Un(s), Un(t)) = [res |-> IrSlice(In(c).acc, e), cell |-> In(c)]
    BY <1>4 DEF DoOp
  <2>2. LaneOp(fn, e, c, s, t) = [res |-> Slice(c.acc, e), cell |-> c]
    BY <1>4 DEF LaneOp
  <2>3. c.acc \in Acc /\ In(c).acc = c.acc % Host
    BY CellFields
  <2>4. IrSlice(In(c).acc, e) = Un(Slice(c.acc, e)) /\ Slice(c.acc, e) \in Lane
    BY <2>3, SliceSame
  <2> QED
    BY <2>1, <2>2, <2>4 DEF Same
<1>5. CASE fn = "vge"
  <2>1. DoOp(fn, e, In(c), Un(s), Un(t)) = IrVge(In(c), Un(s), Un(t))
    BY <1>5 DEF DoOp
  <2>2. LaneOp(fn, e, c, s, t) = Vge(c, s, t)
    BY <1>5 DEF LaneOp
  <2> QED
    BY <2>1, <2>2, VgeSame
<1>6. CASE fn = "vcl"
  <2>1. DoOp(fn, e, In(c), Un(s), Un(t)) = IrVcl(In(c), Un(s), Un(t))
    BY <1>6 DEF DoOp
  <2>2. LaneOp(fn, e, c, s, t) = Vcl(c, s, t)
    BY <1>6 DEF LaneOp
  <2> QED
    BY <2>1, <2>2, VclSame
<1>7. CASE fn = "vand"
  <2>1. DoOp(fn, e, In(c), Un(s), Un(t)) = IrSelected(In(c), BitAnd(Un(s), Un(t)))
    BY <1>7 DEF DoOp
  <2>2. LaneOp(fn, e, c, s, t) = Selected(c, Int16(And(s, t)))
    BY <1>7 DEF LaneOp, Selection, Selections
  <2> QED
    BY <2>1, <2>2, BitwiseSame
<1>8. CASE fn = "vxor"
  <2>1. DoOp(fn, e, In(c), Un(s), Un(t))
          = IrSelected(In(c), Un(s) + Un(t) - 2 * BitAnd(Un(s), Un(t)))
    BY <1>8 DEF DoOp
  <2>2. LaneOp(fn, e, c, s, t) = Selected(c, Int16(Xor(s, t)))
    BY <1>8 DEF LaneOp, Selection, Selections
  <2> QED
    BY <2>1, <2>2, BitwiseSame
<1> QED
  BY <1>1, <1>2, <1>3, <1>4, <1>5, <1>6, <1>7, <1>8 DEF VecFns, Selections, Emitted

\* What the bitwise operations are taken of.
LEMMA BitwiseType ==
    ASSUME NEW s \in Lane, NEW t \in Lane
    PROVE  /\ And(s, t) \in Int /\ Or(s, t) \in Int /\ Xor(s, t) \in Int
           /\ \A x \in Int : Not(x) \in Int
<1>1. Un(s) \in Word /\ Un(t) \in Word
  BY Operands
<1>2. BitAnd(Un(s), Un(t)) \in Word
  BY <1>1, BitAndAssumption
<1> QED
  BY <1>1, <1>2, LaneSize DEF And, Or, Xor, Not, Word

LEMMA SelectionType ==
    ASSUME NEW fn \in Selections, NEW c \in Cell, NEW s \in Lane, NEW t \in Lane
    PROVE  Selection(fn, c, s, t) \in Lane
<1>1. \A x \in Int : Int16(x) \in Lane
  BY LaneSigned
<1>2. s \in Int /\ t \in Int /\ -t \in Int /\ 0 \in Lane
  BY SmallFits, LaneSize DEF Lane
<1>3. /\ And(s, t) \in Int /\ Or(s, t) \in Int /\ Xor(s, t) \in Int
      /\ Not(And(s, t)) \in Int /\ Not(Or(s, t)) \in Int /\ Not(Xor(s, t)) \in Int
  BY BitwiseType
<1>4. CASE fn = "vmrg"
  BY <1>4 DEF Selection
<1>5. CASE fn = "vabs"
  BY <1>1, <1>2, <1>5 DEF Selection
<1>6. CASE fn \notin {"vmrg", "vabs"}
  BY <1>1, <1>3, <1>6 DEF Selection, Selections
<1> QED
  BY <1>4, <1>5, <1>6

\* Every operation leaves a lane and a cell, those of the interpreter alone too.
LEMMA LaneOpType ==
    ASSUME NEW fn \in VecFns, NEW e \in 0 .. 15, NEW c \in Cell,
           NEW s \in Lane, NEW t \in Lane
    PROVE  LaneOp(fn, e, c, s, t).res \in Lane /\ LaneOp(fn, e, c, s, t).cell \in Cell
<1>1. CASE fn \in Emitted
  BY <1>1, LaneStep DEF Same
<1>2. CASE fn \in Selections
  <2>1. LaneOp(fn, e, c, s, t) = Selected(c, Selection(fn, c, s, t))
    BY <1>2 DEF LaneOp, Selections, Products, FromZero, Onto
  <2>2. Selection(fn, c, s, t) \in Lane
    BY <1>2, SelectionType
  <2> QED
    BY <2>1, <2>2, SelectedSame DEF Same
<1>3. CASE fn = "vsubc"
  <2> DEFINE x == s - t
             less == x < 0
             d == [c EXCEPT !.acc = WithLow(@, x), !.vco_l = less, !.vco_h = s # t]
  <2>1. x \in Int /\ s \in Int
    BY SmallFits
  <2>2. LaneOp(fn, e, c, s, t) = [res |-> Int16(x), cell |-> d]
    BY <1>3 DEF LaneOp, Vsubc, Products, FromZero, Onto, Selections
  <2>3. WithLow(c.acc, x) \in Acc
    BY <2>1, CellFields, SetAccLowIs
  <2>4. less \in BOOLEAN
    OBVIOUS
  <2> HIDE DEF less, x
  <2>5. d \in Cell
    BY <2>3, <2>4 DEF Cell
  <2>6. Int16(x) \in Lane
    BY <2>1, LaneSigned
  <2> QED
    BY <2>2, <2>5, <2>6
<1> QED
  BY <1>1, <1>2, <1>3 DEF VecFns, Selections, Emitted

-----------------------------------------------------------------------------
(* Registers: lanes paired, bytes.                                         *)

\* vtSelect's mask names the lane that vt_lane does.
LEMMA MaskIsVtLane ==
    ASSUME NEW e \in 0 .. 15, NEW k \in 0 .. 7
    PROVE  /\ Rsp!VtLane(e, k) \in 0 .. 7
           /\ (IF e < 2 THEN k ELSE Mask(e, k)) = Rsp!VtLane(e, k)
<1>1. CASE e < 2
  BY <1>1 DEF Rsp!VtLane
<1>2. CASE e \in 2 .. 3
  BY <1>2 DEF Rsp!VtLane, Mask
<1>3. CASE e \in 4 .. 7
  BY <1>3 DEF Rsp!VtLane, Mask
<1>4. CASE e > 7
  BY <1>4 DEF Rsp!VtLane, Mask
<1> QED
  BY <1>1, <1>2, <1>3, <1>4

\* The interpreter's operations are those of module RspLane.
LEMMA RspOps ==
    /\ Rsp!Half = Half /\ Rsp!LaneMod = LaneMod /\ Rsp!VecFns = VecFns
    /\ \A x : Rsp!Un(x) = Un(x)
    /\ \A x, half : Rsp!Wrap(x, half) = Wrap(x, half)
    /\ \A x : Rsp!Int16(x) = Int16(x)
    /\ \A fn, e, c, s, t : Rsp!LaneOp(fn, e, c, s, t) = LaneOp(fn, e, c, s, t)
<1>1. Rsp!LaneMod = LaneMod /\ Rsp!Half = Half /\ Rsp!VecFns = VecFns
  BY DEF
      LaneMod, Half, VecFns, Products, FromZero, Onto, Selections, Rsp!LaneMod,
      Rsp!Half, Rsp!VecFns, Rsp!Products, Rsp!FromZero, Rsp!Onto, Rsp!Selections
<1>2. \A x : Rsp!Un(x) = Un(x)
  BY Zenon DEF Un, LaneMod, Rsp!Un, Rsp!LaneMod
<1>3. \A x, half : Rsp!Wrap(x, half) = Wrap(x, half)
  BY Zenon DEF Wrap, Rsp!Wrap
<1>4. \A x : Rsp!Int16(x) = Int16(x)
  BY Zenon DEF
      Int16, Wrap, Half, LaneMod, Rsp!Int16, Rsp!Wrap, Rsp!Half, Rsp!LaneMod
<1>5. ASSUME NEW fn, NEW e, NEW c, NEW s, NEW t
      PROVE  Rsp!LaneOp(fn, e, c, s, t) = LaneOp(fn, e, c, s, t)
  BY Zenon DEF
      LaneMod, Half, AccHalf, Un, Bit, Wrap, Int16, Sext48, Clamp, Mid, ClampLow,
      WithLow, And, Or, Xor, Not, Product, AccAfter, Multiply, Add, Vadd, Vsub,
      Vaddc, Vsubc, Selected, Vge, Vcl, Selection, Slice, LaneOp, FromZero, Onto,
      Products, Selections, Rsp!LaneMod, Rsp!Half, Rsp!AccHalf, Rsp!Un, Rsp!Bit,
      Rsp!Wrap, Rsp!Int16, Rsp!Sext48, Rsp!Clamp, Rsp!Mid, Rsp!ClampLow,
      Rsp!WithLow, Rsp!And, Rsp!Or, Rsp!Xor, Rsp!Not, Rsp!Product, Rsp!AccAfter,
      Rsp!Multiply, Rsp!Add, Rsp!Vadd, Rsp!Vsub, Rsp!Vaddc, Rsp!Vsubc,
      Rsp!Selected, Rsp!Vge, Rsp!Vcl, Rsp!Selection, Rsp!Slice, Rsp!LaneOp,
      Rsp!FromZero, Rsp!Onto, Rsp!Products, Rsp!Selections
<1> QED
  BY <1>1, <1>2, <1>3, <1>4, <1>5

\* And so are those of the abstract machine.
LEMMA CoreOps ==
    /\ Core!Half = Half /\ Core!LaneMod = LaneMod /\ Core!VecFns = VecFns
    /\ \A x : Core!Un(x) = Un(x)
    /\ \A x, half : Core!Wrap(x, half) = Wrap(x, half)
    /\ \A x : Core!Int16(x) = Int16(x)
    /\ \A fn, e, c, s, t : Core!LaneOp(fn, e, c, s, t) = LaneOp(fn, e, c, s, t)
<1>1. Core!LaneMod = LaneMod /\ Core!Half = Half /\ Core!VecFns = VecFns
  BY DEF
      LaneMod, Half, VecFns, Products, FromZero, Onto, Selections, Core!LaneMod,
      Core!Half, Core!VecFns, Core!Products, Core!FromZero, Core!Onto,
      Core!Selections
<1>2. \A x : Core!Un(x) = Un(x)
  BY Zenon DEF Un, LaneMod, Core!Un, Core!LaneMod
<1>3. \A x, half : Core!Wrap(x, half) = Wrap(x, half)
  BY Zenon DEF Wrap, Core!Wrap
<1>4. \A x : Core!Int16(x) = Int16(x)
  BY Zenon DEF
      Int16, Wrap, Half, LaneMod, Core!Int16, Core!Wrap, Core!Half, Core!LaneMod
<1>5. ASSUME NEW fn, NEW e, NEW c, NEW s, NEW t
      PROVE  Core!LaneOp(fn, e, c, s, t) = LaneOp(fn, e, c, s, t)
  BY Zenon DEF
      LaneMod, Half, AccHalf, Un, Bit, Wrap, Int16, Sext48, Clamp, Mid, ClampLow,
      WithLow, And, Or, Xor, Not, Product, AccAfter, Multiply, Add, Vadd, Vsub,
      Vaddc, Vsubc, Selected, Vge, Vcl, Selection, Slice, LaneOp, FromZero, Onto,
      Products, Selections, Core!LaneMod, Core!Half, Core!AccHalf, Core!Un,
      Core!Bit, Core!Wrap, Core!Int16, Core!Sext48, Core!Clamp, Core!Mid,
      Core!ClampLow, Core!WithLow, Core!And, Core!Or, Core!Xor, Core!Not,
      Core!Product, Core!AccAfter, Core!Multiply, Core!Add, Core!Vadd, Core!Vsub,
      Core!Vaddc, Core!Vsubc, Core!Selected, Core!Vge, Core!Vcl, Core!Selection,
      Core!Slice, Core!LaneOp, Core!FromZero, Core!Onto, Core!Products,
      Core!Selections
<1> QED
  BY <1>1, <1>2, <1>3, <1>4, <1>5

-----------------------------------------------------------------------------
(* rsp_t and the locals hold the same thing.                               *)

VecRegs == [Rsp!Vecs -> [Rsp!Lanes -> Lane]]
VecPatterns == [Rsp!Vecs -> [Rsp!Lanes -> Word]]

LEMMA RspSets ==
    /\ Rsp!VecVal = [Rsp!Lanes -> Lane] /\ Rsp!Lanes = 0 .. 7
    /\ [Rsp!Vecs -> Rsp!VecVal] = VecRegs
  BY RspOps DEF Rsp!VecVal, Rsp!Lane, Lane, Rsp!Lanes, VecRegs

LEMMA VecInOut ==
    ASSUME NEW f \in VecRegs
    PROVE  VecIn(f) \in VecPatterns /\ VecOut(VecIn(f)) = f
<1>1. \A x \in Lane : Un(x) \in Word /\ Signed(Un(x), LaneMod) = x
  BY Operands
<1> QED
  BY <1>1 DEF VecIn, VecOut, VecRegs, VecPatterns

LEMMA VecOutIn ==
    ASSUME NEW f \in VecPatterns
    PROVE  VecOut(f) \in VecRegs /\ VecIn(VecOut(f)) = f
<1>1. \A p \in Word : Signed(p, LaneMod) \in Lane /\ Un(Signed(p, LaneMod)) = p
  BY LanePattern
<1> QED
  BY <1>1 DEF VecIn, VecOut, VecRegs, VecPatterns

LEMMA OutIn ==
    ASSUME NEW c \in Cell
    PROVE  In(c) \in Local /\ Out(In(c)) = c
<1>1. c.acc \in Int /\ Fits(c.acc)
  BY CellFields, SmallFits
<1>2. c.acc % Host \in Int64 /\ Signed(c.acc % Host, Host) = c.acc
  BY <1>1, HostSigned
<1> QED
  BY <1>2 DEF In, Out, Local, Cell

LEMMA CellInOut ==
    ASSUME NEW f \in [Rsp!Lanes -> Cell]
    PROVE  CellIn(f) \in [Rsp!Lanes -> Local] /\ CellOut(CellIn(f)) = f
  BY OutIn DEF CellIn, CellOut

LEMMA CellOutIn ==
    ASSUME NEW f \in [Rsp!Lanes -> Local]
    PROVE  CellIn(CellOut(f)) = f
<1>1. ASSUME NEW c \in Local
      PROVE  In(Out(c)) = c
  <2>1. c.acc \in 0 .. 2 * HostHalf - 1
    BY AccSize DEF Local, Int64
  <2>2. Signed(c.acc, Host) % Host = c.acc
    BY <2>1, AccSize, SignedFacts
  <2> QED
    BY <2>2 DEF In, Out, Local
<1> QED
  BY <1>1 DEF CellIn, CellOut

-----------------------------------------------------------------------------
(* One instruction, on whatever holds the registers.                       *)

OperationStep(i, v0, v1, c0, c1, r0, r1) ==
    /\ i.fn \in VecFns
    /\ LET after == [k \in Rsp!Lanes |->
                       LaneOp(i.fn, i.e, c0[k], v0[i.vs][k], v0[i.vt][Rsp!VtLane(i.e, k)])]
       IN  /\ v1 = [v0 EXCEPT ![i.vd] = [k \in Rsp!Lanes |-> after[k].res]]
           /\ c1 = [k \in Rsp!Lanes |-> after[k].cell]
    /\ r1 = r0

Mfc2Step(i, v0, v1, c0, c1, r0, r1) ==
    /\ i.fn = "mfc2"
    /\ r1 = Rsp!SetGpr(r0, i.rt, Int16(Rsp!VByte(v0[i.vd], i.e) * ByteMod
                                         + Rsp!VByte(v0[i.vd], i.e + 1)))
    /\ v1 = v0 /\ c1 = c0

Mtc2Step(i, v0, v1, c0, c1, r0, r1) ==
    /\ i.fn = "mtc2"
    /\ LET h == r0[i.rt] % LaneMod
           first == Rsp!SetVByte(v0[i.vd], i.e, h \div ByteMod)
       IN  v1 = [v0 EXCEPT ![i.vd] =
                   IF i.e = 15 THEN first ELSE Rsp!SetVByte(first, i.e + 1, h % ByteMod)]
    /\ c1 = c0 /\ r1 = r0

Cfc2Step(i, v0, v1, c0, c1, r0, r1) ==
    /\ i.fn = "cfc2"
    /\ r1 = Rsp!SetGpr(r0, i.rt, Wrap(Rsp!GetVFlags(i.vd, c0), 32768))
    /\ v1 = v0 /\ c1 = c0

Ctc2Step(i, v0, v1, c0, c1, r0, r1) ==
    /\ i.fn = "ctc2"
    /\ c1 = Rsp!SetVFlags(i.vd, c0, r0[i.rt] % 65536)
    /\ v1 = v0 /\ r1 = r0

VecStep(i, v0, v1, c0, c1, r0, r1) ==
    \/ OperationStep(i, v0, v1, c0, c1, r0, r1)
    \/ Mfc2Step(i, v0, v1, c0, c1, r0, r1)
    \/ Mtc2Step(i, v0, v1, c0, c1, r0, r1)
    \/ Cfc2Step(i, v0, v1, c0, c1, r0, r1)
    \/ Ctc2Step(i, v0, v1, c0, c1, r0, r1)

\* The interpreter takes such steps of rsp_t.
LEMMA RspRun ==
    ASSUME NEW i, Rsp!Run(i)
    PROVE  insn' = i /\ VecStep(i, v, v', cell, cell', r, r')
<1>1. ASSUME NEW fn, NEW e, NEW c, NEW s, NEW t
      PROVE  Rsp!LaneOp(fn, e, c, s, t) = LaneOp(fn, e, c, s, t)
  BY RspOps
<1>2. Rsp!Vector(i) => OperationStep(i, v, v', cell, cell', r, r')
  <2> DEFINE after == [k \in Rsp!Lanes |->
                LaneOp(i.fn, i.e, cell[k], v[i.vs][k], v[i.vt][Rsp!VtLane(i.e, k)])]
  <2>1. Rsp!LaneOps(i) = after
    BY <1>1 DEF Rsp!LaneOps
  <2> HIDE DEF after
  <2>2. Rsp!Vector(i) =>
          /\ i.fn \in VecFns
          /\ v' = [v EXCEPT ![i.vd] = [k \in Rsp!Lanes |-> after[k].res]]
          /\ cell' = [k \in Rsp!Lanes |-> after[k].cell]
          /\ r' = r
    BY <2>1, RspOps DEF Rsp!Vector
  <2> QED
    BY <2>2, Zenon DEF OperationStep, after
<1>3. Rsp!Mfc2(i) => Mfc2Step(i, v, v', cell, cell', r, r')
  BY RspOps DEF Mfc2Step, Rsp!Mfc2
<1>4. Rsp!Mtc2(i) => Mtc2Step(i, v, v', cell, cell', r, r')
  BY RspOps DEF Mtc2Step, Rsp!Mtc2
<1>5. Rsp!Cfc2(i) => Cfc2Step(i, v, v', cell, cell', r, r')
  BY RspOps DEF Cfc2Step, Rsp!Cfc2
<1>6. Rsp!Ctc2(i) => Ctc2Step(i, v, v', cell, cell', r, r')
  BY DEF Ctc2Step, Rsp!Ctc2
<1> QED
  BY <1>2, <1>3, <1>4, <1>5, <1>6 DEF Rsp!Run, VecStep

\* And what module RspVec adds to them.
LEMMA CoreVecOps ==
    /\ Core!Lanes = Rsp!Lanes
    /\ \A e, k : Core!VtLane(e, k) = Rsp!VtLane(e, k)
    /\ \A g, t, x : Core!SetGpr(g, t, x) = Rsp!SetGpr(g, t, x)
    /\ \A x, k : Core!VByte(x, k) = Rsp!VByte(x, k)
    /\ \A x, k, b : Core!SetVByte(x, k, b) = Rsp!SetVByte(x, k, b)
    /\ \A which, c : Core!GetVFlags(which, c) = Rsp!GetVFlags(which, c)
    /\ \A which, c, x : Core!SetVFlags(which, c, x) = Rsp!SetVFlags(which, c, x)
<1>1. Core!Lanes = Rsp!Lanes /\ \A e, k : Core!VtLane(e, k) = Rsp!VtLane(e, k)
  BY Zenon DEF Core!Lanes, Rsp!Lanes, Core!VtLane, Rsp!VtLane
<1>2. ASSUME NEW g, NEW t, NEW x PROVE Core!SetGpr(g, t, x) = Rsp!SetGpr(g, t, x)
  BY Zenon DEF Core!SetGpr, Rsp!SetGpr
<1>3. ASSUME NEW x, NEW k PROVE Core!VByte(x, k) = Rsp!VByte(x, k)
  BY Zenon DEF
      Rsp!VByte, Rsp!Un, Rsp!LaneMod, Core!VByte, Core!Un, Core!LaneMod
<1>4. ASSUME NEW x, NEW k, NEW b PROVE Core!SetVByte(x, k, b) = Rsp!SetVByte(x, k, b)
  BY Zenon DEF
      Rsp!SetVByte, Rsp!Un, Rsp!Int16, Rsp!Wrap, Rsp!Half, Rsp!LaneMod,
      Core!SetVByte, Core!Un, Core!Int16, Core!Wrap, Core!Half, Core!LaneMod
<1>5. ASSUME NEW which, NEW c PROVE Core!GetVFlags(which, c) = Rsp!GetVFlags(which, c)
  BY Zenon DEF
      Rsp!GetVFlags, Rsp!Sum8, Rsp!Lanes, Rsp!BitOf, Rsp!Bit, Rsp!LowFlag,
      Rsp!HighFlag, Core!GetVFlags, Core!Sum8, Core!Lanes, Core!BitOf, Core!Bit,
      Core!LowFlag, Core!HighFlag
<1>6. ASSUME NEW which, NEW c, NEW x
      PROVE  Core!SetVFlags(which, c, x) = Rsp!SetVFlags(which, c, x)
  BY Zenon DEF
      Rsp!SetVFlags, Rsp!Lanes, Rsp!BitOf, Core!SetVFlags, Core!Lanes, Core!BitOf
<1> QED
  BY <1>1, <1>2, <1>3, <1>4, <1>5, <1>6

UnitRegs == IF Inside THEN gpr ELSE r

\* Such a step of the registers that the program sees is one of the abstract machine.
LEMMA CoreRun ==
    ASSUME NEW i, insn' = i,
           VecStep(i, UnitVecs, UnitVecs', UnitCells, UnitCells', UnitRegs, UnitRegs')
    PROVE  Core!Run(i)
<1>1. ASSUME NEW fn, NEW e, NEW c, NEW s, NEW t
      PROVE  Core!LaneOp(fn, e, c, s, t) = LaneOp(fn, e, c, s, t)
  BY CoreOps
<1>2. ASSUME OperationStep(i, UnitVecs, UnitVecs', UnitCells, UnitCells', UnitRegs, UnitRegs')
      PROVE  Core!Vector(i)
  <2> DEFINE after == [k \in Rsp!Lanes |->
                         LaneOp(i.fn, i.e, UnitCells[k], UnitVecs[i.vs][k],
                                UnitVecs[i.vt][Rsp!VtLane(i.e, k)])]
  <2>1. Core!LaneOps(i) = after
    BY <1>1, CoreVecOps DEF Core!LaneOps
  <2>2. /\ i.fn \in VecFns
        /\ UnitVecs' = [UnitVecs EXCEPT ![i.vd] = [k \in Rsp!Lanes |-> after[k].res]]
        /\ UnitCells' = [k \in Rsp!Lanes |-> after[k].cell]
        /\ UnitRegs' = UnitRegs
    BY <1>2, Zenon DEF OperationStep
  <2> HIDE DEF after
  <2> QED
    BY <2>1, <2>2, CoreOps, CoreVecOps DEF Core!Vector, UnitRegs
<1>3. ASSUME Mfc2Step(i, UnitVecs, UnitVecs', UnitCells, UnitCells', UnitRegs, UnitRegs')
      PROVE  Core!Mfc2(i)
  BY <1>3, CoreOps, CoreVecOps DEF Mfc2Step, Core!Mfc2, UnitRegs
<1>4. ASSUME Mtc2Step(i, UnitVecs, UnitVecs', UnitCells, UnitCells', UnitRegs, UnitRegs')
      PROVE  Core!Mtc2(i)
  BY <1>4, CoreOps, CoreVecOps DEF Mtc2Step, Core!Mtc2, UnitRegs
<1>5. ASSUME Cfc2Step(i, UnitVecs, UnitVecs', UnitCells, UnitCells', UnitRegs, UnitRegs')
      PROVE  Core!Cfc2(i)
  BY <1>5, CoreOps, CoreVecOps DEF Cfc2Step, Core!Cfc2, UnitRegs
<1>6. ASSUME Ctc2Step(i, UnitVecs, UnitVecs', UnitCells, UnitCells', UnitRegs, UnitRegs')
      PROVE  Core!Ctc2(i)
  BY <1>6, CoreOps, CoreVecOps DEF Ctc2Step, Core!Ctc2, UnitRegs
<1> QED
  BY <1>2, <1>3, <1>4, <1>5, <1>6 DEF Core!Run, VecStep

-----------------------------------------------------------------------------
(* Bytes of a register.                                                    *)

Patterns(x) == [k \in Rsp!Lanes |-> Un(x[k])]
Bytes == 0 .. ByteMod - 1

\* A lane's pattern is its two bytes.
LEMMA TwoBytes ==
    ASSUME NEW h \in Word
    PROVE  h \div ByteMod \in Bytes /\ h % ByteMod \in Bytes
           /\ (h \div ByteMod) % ByteMod = h \div ByteMod
           /\ h = ByteMod * (h \div ByteMod) + (h % ByteMod)
<1>1. ByteMod \in Nat /\ ByteMod > 0 /\ h \in Int /\ h >= 0 /\ h < ByteMod * ByteMod
  BY ByteSize, LaneSize DEF Word, LaneMod
<1> DEFINE q == h \div ByteMod
<1>2. h % ByteMod \in 0 .. ByteMod - 1 /\ q \in Int /\ h = ByteMod * q + (h % ByteMod)
  BY <1>1, DivMod
<1>3. q >= 0 /\ q < ByteMod
  <2>1. q <= -1 => ByteMod * q <= -ByteMod
    BY <1>1, <1>2, MulStep
  <2>2. (q - ByteMod >= 1 => ByteMod * (q - ByteMod) >= ByteMod)
        /\ ByteMod * (q - ByteMod) = ByteMod * q - ByteMod * ByteMod
    BY <1>1, <1>2, MulStep, Distribute
  <2>3. q = ByteMod => ByteMod * q = ByteMod * ByteMod
    OBVIOUS
  <2> HIDE DEF q
  <2>4. ByteMod * q \in Int /\ ByteMod * ByteMod \in Int /\ ByteMod * (q - ByteMod) \in Int
    BY <1>1, <1>2
  <2> QED
    BY <1>1, <1>2, <2>1, <2>2, <2>3, <2>4
<1> HIDE DEF q
<1>4. (ByteMod * 0 + q) % ByteMod = q /\ ByteMod * 0 + q = q
  BY <1>1, <1>2, <1>3, DivModUnique
<1>5. q \in Bytes /\ h % ByteMod \in Bytes /\ q % ByteMod = q
  BY <1>1, <1>2, <1>3, <1>4 DEF Bytes
<1> QED
  BY <1>2, <1>5 DEF q

\* Two bytes are a pattern.
LEMMA FromBytes ==
    ASSUME NEW hi \in Bytes, NEW lo \in Bytes
    PROVE  hi * ByteMod + lo \in Word /\ (hi * ByteMod + lo) % ByteMod = lo
           /\ (hi * ByteMod + lo) \div ByteMod = hi
<1>1. ByteMod \in Nat /\ ByteMod > 0 /\ hi \in Nat /\ lo \in 0 .. ByteMod - 1
      /\ hi <= ByteMod - 1
  BY ByteSize DEF Bytes
<1>2. hi * ByteMod = ByteMod * hi
  BY <1>1
<1>3. ByteMod * (ByteMod - hi) >= ByteMod
      /\ ByteMod * (ByteMod - hi) = ByteMod * ByteMod - ByteMod * hi
  BY <1>1, MulStep, Distribute
<1>4. ByteMod * hi \in Nat
  BY <1>1
<1>5. hi * ByteMod + lo \in Word
  BY <1>1, <1>2, <1>3, <1>4, LaneSize DEF Word, LaneMod
<1>6. (ByteMod * hi + lo) % ByteMod = lo /\ (ByteMod * hi + lo) \div ByteMod = hi
  BY <1>1, DivModUnique
<1> QED
  BY <1>2, <1>5, <1>6

LEMMA ByteLane ==
    ASSUME NEW k \in 0 .. 16
    PROVE  (k % 16) \div 2 \in 0 .. 7 /\ Rsp!Lanes = 0 .. 7
  BY DEF Rsp!Lanes

LEMMA PatternIs ==
    ASSUME NEW x \in [Rsp!Lanes -> Lane], NEW j \in Rsp!Lanes
    PROVE  Patterns(x)[j] = Un(x[j]) /\ Un(x[j]) \in Word
  BY Operands DEF Patterns

LEMMA GetByteSame ==
    ASSUME NEW x \in [Rsp!Lanes -> Lane], NEW k \in 0 .. 16
    PROVE  GetByte(Patterns(x), k) = Rsp!VByte(x, k) /\ Rsp!VByte(x, k) \in Bytes
<1> DEFINE j == (k % 16) \div 2
           h == Un(x[j])
<1>1. Patterns(x)[j] = h /\ h \in Word
  BY ByteLane, PatternIs
<1>2. /\ GetByte(Patterns(x), k) = (IF k % 2 = 1 THEN h ELSE h \div ByteMod) % ByteMod
      /\ Rsp!VByte(x, k) = IF k % 2 = 1 THEN h % ByteMod ELSE h \div ByteMod
  BY <1>1, RspOps DEF GetByte, LShr, Rsp!VByte
<1> HIDE DEF h
<1> QED
  BY <1>1, <1>2, TwoBytes

\* Of what setByte is given, only the lowest byte counts.
LEMMA SetByteSame ==
    ASSUME NEW x \in [Rsp!Lanes -> Lane], NEW k \in 0 .. 16, NEW b, NEW byte \in Bytes,
           b % ByteMod = byte
    PROVE  /\ Rsp!SetVByte(x, k, byte) \in [Rsp!Lanes -> Lane]
           /\ SetByte(Patterns(x), k, b) = Patterns(Rsp!SetVByte(x, k, byte))
<1> DEFINE j == (k % 16) \div 2
           h == Un(x[j])
           p == IF k % 2 = 1 THEN (h - (h % ByteMod)) + byte
                             ELSE (h % ByteMod) + byte * ByteMod
<1>1. j \in Rsp!Lanes /\ Patterns(x)[j] = h /\ h \in Word
  BY ByteLane, PatternIs
<1>2. Rsp!SetVByte(x, k, byte) = [x EXCEPT ![j] = Int16(p)]
  BY RspOps DEF Rsp!SetVByte
<1>3. SetByte(Patterns(x), k, b) = [Patterns(x) EXCEPT ![j] = p]
  BY <1>1 DEF SetByte
<1> HIDE DEF j, h
<1>4. p \in Word
  <2>1. h % ByteMod \in Bytes /\ h \div ByteMod \in Bytes
        /\ h = ByteMod * (h \div ByteMod) + (h % ByteMod)
    BY <1>1, TwoBytes
  <2>2. CASE k % 2 = 1
    <3>1. ByteMod * (h \div ByteMod) = (h \div ByteMod) * ByteMod
          /\ (h \div ByteMod) * ByteMod \in Int
      BY <2>1, ByteSize DEF Bytes
    <3>2. p = (h \div ByteMod) * ByteMod + byte
      BY <2>1, <2>2, <3>1, ByteSize DEF Bytes
    <3> QED
      BY <2>1, <3>2, FromBytes
  <2>3. CASE k % 2 # 1
    <3>1. byte * ByteMod \in Int
      BY ByteSize DEF Bytes
    <3>2. p = byte * ByteMod + (h % ByteMod)
      BY <2>1, <2>3, <3>1, ByteSize DEF Bytes
    <3> QED
      BY <2>1, <3>2, FromBytes
  <2> QED
    BY <2>2, <2>3
<1> HIDE DEF p
<1>5. Int16(p) \in Lane /\ Un(Int16(p)) = p
  BY <1>4, LanePattern
<1> QED
  BY <1>1, <1>2, <1>3, <1>5 DEF Patterns

\* The two bytes that mtc2 moves, of a scalar register.
LEMMA LowBytes ==
    ASSUME NEW x \in Nat
    PROVE  /\ x % LaneMod \in Word
           /\ (x \div ByteMod) % ByteMod = (x % LaneMod) \div ByteMod
           /\ x % ByteMod = (x % LaneMod) % ByteMod
<1>1. ByteMod \in Nat /\ ByteMod > 0 /\ LaneMod \in Nat /\ LaneMod > 0
      /\ LaneMod = ByteMod * ByteMod
  BY ByteSize, LaneSize DEF LaneMod
<1> DEFINE h == x % LaneMod
           q == x \div LaneMod
<1>2. h \in 0 .. LaneMod - 1 /\ q \in Int /\ x = LaneMod * q + h
  BY <1>1, DivMod
<1>3. h \in Word
  BY <1>2 DEF Word
<1>4. h % ByteMod = x % ByteMod
  <2>1. ByteMod * ByteMod \in Nat /\ ByteMod * ByteMod > 0 /\ x \in Int
    BY <1>1
  <2>2. (x % (ByteMod * ByteMod)) % ByteMod = x % ByteMod
    BY <1>1, <2>1, ModMod
  <2> QED
    BY <1>1, <2>2
<1>5. LaneMod * q = ByteMod * (ByteMod * q) /\ ByteMod * q \in Int
  BY <1>1, <1>2
<1> HIDE DEF h, q
<1>6. x = h + ByteMod * (ByteMod * q)
  <2>1. ByteMod * (ByteMod * q) \in Int
    BY <1>1, <1>5
  <2> QED
    BY <1>2, <1>5, <2>1
<1>7. x \div ByteMod = (h \div ByteMod) + ByteMod * q
  BY <1>1, <1>2, <1>5, <1>6, ModShift
<1>8. (h \div ByteMod) \in Int /\ (h \div ByteMod) % ByteMod = h \div ByteMod
  BY <1>1, <1>2, <1>3, DivMod, TwoBytes
<1>9. ((h \div ByteMod) + ByteMod * q) % ByteMod = (h \div ByteMod) % ByteMod
  BY <1>1, <1>2, <1>8, ModShift
<1> QED
  BY <1>3, <1>4, <1>7, <1>8, <1>9 DEF h

-----------------------------------------------------------------------------
(* Steps keep the types.                                                   *)

LEMMA InsnFields ==
    ASSUME NEW i \in VecInsns
    PROVE  /\ i.fn \in VecFns \cup {"mfc2", "mtc2", "cfc2", "ctc2"}
           /\ i.e \in 0 .. 15 /\ i.vd \in Rsp!Vecs
           /\ i.fn \in VecFns => i.vs \in Rsp!Vecs /\ i.vt \in Rsp!Vecs
           /\ i.fn \in {"mfc2", "mtc2", "cfc2", "ctc2"} => i.rt \in Rsp!Gprs
<1>1. \/ i \in [fn : VecFns, e : 0 .. 15, vs : Rsp!Vecs, vt : Rsp!Vecs, vd : Rsp!Vecs]
      \/ i \in [fn : Rsp!Moves, e : 0 .. 15, rt : Rsp!Gprs, vd : Rsp!Vecs]
  BY VecInsnsAssumption, RspOps DEF Rsp!VecInsn
<1>2. VecFns \cap {"mfc2", "mtc2", "cfc2", "ctc2"} = {}
  BY DEF VecFns, Products, FromZero, Onto, Selections
<1> QED
  BY <1>1, <1>2 DEF Rsp!Moves

LEMMA SetGprType ==
    ASSUME NEW g \in Rsp!RFile, NEW t \in Rsp!Gprs, NEW x \in Int
    PROVE  Rsp!SetGpr(g, t, x) \in Rsp!RFile
<1>1. GprMod \in Nat /\ GprMod > 0 /\ x % GprMod \in 0 .. GprMod - 1
  <2>1. GprMod \in Nat /\ GprMod > 0
    BY GprAssumption
  <2> QED
    BY <2>1, DivMod
<1>2. 0 \in Rsp!Gprs
  BY VecAssumption DEF Rsp!Gprs
<1> QED
  BY <1>1, <1>2 DEF Rsp!SetGpr, Rsp!RFile

LEMMA GprIsNat ==
    ASSUME NEW g \in Rsp!RFile, NEW t \in Rsp!Gprs
    PROVE  g[t] \in Nat
  BY GprAssumption DEF Rsp!RFile

\* The flags of a register, as a number.
LEMMA VFlagsInt ==
    ASSUME NEW which, NEW c \in [Rsp!Lanes -> Cell]
    PROVE  Rsp!GetVFlags(which, c) \in Int
<1> DEFINE weight(i) == Rsp!BitOf(i) * (Bit(Rsp!LowFlag(which, c[i]))
                                          + 256 * Bit(Rsp!HighFlag(which, c[i])))
           f == [i \in Rsp!Lanes |-> weight(i)]
<1>1. ASSUME NEW i \in 0 .. 7
      PROVE  f[i] \in Int
  <2>1. Rsp!BitOf(i) \in Int
    <3>1. i = 0 \/ i = 1 \/ i = 2 \/ i = 3 \/ i = 4 \/ i = 5 \/ i = 6 \/ i = 7
      OBVIOUS
    <3> QED
      BY <3>1 DEF Rsp!BitOf
  <2>2. Bit(Rsp!LowFlag(which, c[i])) \in Int /\ Bit(Rsp!HighFlag(which, c[i])) \in Int
    BY DEF Bit
  <2>3. weight(i) \in Int
    BY <2>1, <2>2
  <2> HIDE DEF weight
  <2> QED
    BY <2>3 DEF Rsp!Lanes
<1>2. Rsp!GetVFlags(which, c) = Rsp!Sum8(f)
  <2>1. \A b : Rsp!Bit(b) = Bit(b)
    BY DEF Bit, Rsp!Bit
  <2> QED
    BY <2>1 DEF Rsp!GetVFlags
<1> HIDE DEF f
<1>3. f[0] \in Int /\ f[1] \in Int /\ f[2] \in Int /\ f[3] \in Int
      /\ f[4] \in Int /\ f[5] \in Int /\ f[6] \in Int /\ f[7] \in Int
  BY <1>1
<1> QED
  BY <1>2, <1>3 DEF Rsp!Sum8

LEMMA SetVFlagsType ==
    ASSUME NEW which, NEW c \in [Rsp!Lanes -> Cell], NEW x \in Int
    PROVE  Rsp!SetVFlags(which, c, x) \in [Rsp!Lanes -> Cell]
<1> DEFINE lo(i) == (x \div Rsp!BitOf(i)) % 2 = 1
           hi(i) == (x \div (256 * Rsp!BitOf(i))) % 2 = 1
           d(i) == CASE which = 0 -> [c[i] EXCEPT !.vco_l = lo(i), !.vco_h = hi(i)]
                     [] which = 1 -> [c[i] EXCEPT !.vcc_l = lo(i), !.vcc_h = hi(i)]
                     [] which = 2 -> [c[i] EXCEPT !.vce = lo(i)]
                     [] OTHER -> [c[i] EXCEPT !.vce = lo(i), !.vcc_h = hi(i)]
<1>1. \A i : lo(i) \in BOOLEAN /\ hi(i) \in BOOLEAN
  OBVIOUS
<1>2. Rsp!SetVFlags(which, c, x) = [i \in Rsp!Lanes |-> d(i)]
  BY Zenon DEF Rsp!SetVFlags
<1> HIDE DEF lo, hi
<1>3. ASSUME NEW i \in Rsp!Lanes
      PROVE  d(i) \in Cell
  BY <1>1 DEF Cell
<1> HIDE DEF d
<1> QED
  BY <1>2, <1>3

\* The operands and results of one vector operation.
LEMMA OperationType ==
    ASSUME NEW i \in VecInsns, i.fn \in VecFns, NEW v0 \in VecRegs,
           NEW c0 \in [Rsp!Lanes -> Cell], NEW k \in Rsp!Lanes
    PROVE  LET op == LaneOp(i.fn, i.e, c0[k], v0[i.vs][k], v0[i.vt][Rsp!VtLane(i.e, k)])
           IN  op.res \in Lane /\ op.cell \in Cell
<1>1. i.e \in 0 .. 15 /\ i.vs \in Rsp!Vecs /\ i.vt \in Rsp!Vecs
  BY InsnFields
<1>2. k \in 0 .. 7 /\ Rsp!Lanes = 0 .. 7
  BY RspSets
<1>3. Rsp!VtLane(i.e, k) \in Rsp!Lanes
  BY <1>1, <1>2, MaskIsVtLane
<1>4. c0[k] \in Cell /\ v0[i.vs][k] \in Lane /\ v0[i.vt][Rsp!VtLane(i.e, k)] \in Lane
  BY <1>1, <1>3 DEF VecRegs
<1> QED
  BY <1>1, <1>4, LaneOpType

\* What mtc2 leaves in its register.
LEMMA Mtc2Type ==
    ASSUME NEW x \in [Rsp!Lanes -> Lane], NEW e \in 0 .. 15, NEW g \in Nat
    PROVE  LET h == g % LaneMod
               first == Rsp!SetVByte(x, e, h \div ByteMod)
           IN  /\ h \div ByteMod \in Bytes /\ h % ByteMod \in Bytes
               /\ first \in [Rsp!Lanes -> Lane]
               /\ Rsp!SetVByte(first, e + 1, h % ByteMod) \in [Rsp!Lanes -> Lane]
<1> DEFINE h == g % LaneMod
           first == Rsp!SetVByte(x, e, h \div ByteMod)
<1>1. h \div ByteMod \in Bytes /\ h % ByteMod \in Bytes
  BY LowBytes, TwoBytes
<1>2. (h \div ByteMod) % ByteMod = h \div ByteMod /\ (h % ByteMod) % ByteMod = h % ByteMod
  <2>1. \A b \in Bytes : b % ByteMod = b
    <3>1. ASSUME NEW b \in Bytes PROVE b % ByteMod = b
      <4>1. (ByteMod * 0 + b) % ByteMod = b /\ ByteMod * 0 + b = b
        BY ByteSize, DivModUnique DEF Bytes
      <4> QED
        BY <4>1
    <3> QED
      BY <3>1
  <2> QED
    BY <1>1, <2>1
<1>3. e \in 0 .. 16 /\ e + 1 \in 0 .. 16
  OBVIOUS
<1> HIDE DEF h
<1>4. first \in [Rsp!Lanes -> Lane]
  BY <1>1, <1>2, <1>3, SetByteSame
<1> HIDE DEF first
<1>5. Rsp!SetVByte(first, e + 1, h % ByteMod) \in [Rsp!Lanes -> Lane]
  BY <1>1, <1>2, <1>3, <1>4, SetByteSame
<1> QED
  BY <1>1, <1>4, <1>5 DEF h, first

LEMMA StepType ==
    ASSUME NEW i \in VecInsns, NEW v0 \in VecRegs, NEW c0 \in [Rsp!Lanes -> Cell],
           NEW r0 \in Rsp!RFile, NEW v1, NEW c1, NEW r1,
           VecStep(i, v0, v1, c0, c1, r0, r1)
    PROVE  v1 \in VecRegs /\ c1 \in [Rsp!Lanes -> Cell] /\ r1 \in Rsp!RFile
<1>1. CASE OperationStep(i, v0, v1, c0, c1, r0, r1)
  <2> DEFINE op(k) == LaneOp(i.fn, i.e, c0[k], v0[i.vs][k], v0[i.vt][Rsp!VtLane(i.e, k)])
  <2>1. \A k \in Rsp!Lanes : op(k).res \in Lane /\ op(k).cell \in Cell
    BY <1>1, OperationType DEF OperationStep
  <2>2. /\ v1 = [v0 EXCEPT ![i.vd] = [k \in Rsp!Lanes |-> op(k).res]]
        /\ c1 = [k \in Rsp!Lanes |-> op(k).cell]
        /\ r1 = r0
    BY <1>1 DEF OperationStep
  <2> HIDE DEF op
  <2>3. [k \in Rsp!Lanes |-> op(k).res] \in [Rsp!Lanes -> Lane]
    BY <2>1
  <2>4. v1 \in VecRegs
    BY <2>2, <2>3 DEF VecRegs
  <2> QED
    BY <2>1, <2>2, <2>4
<1>2. CASE Mfc2Step(i, v0, v1, c0, c1, r0, r1)
  <2>1. i.e \in 0 .. 16 /\ i.e + 1 \in 0 .. 16 /\ i.vd \in Rsp!Vecs /\ i.rt \in Rsp!Gprs
    BY <1>2, InsnFields DEF Mfc2Step
  <2>2. v0[i.vd] \in [Rsp!Lanes -> Lane]
    BY <2>1 DEF VecRegs
  <2> DEFINE x == Rsp!VByte(v0[i.vd], i.e) * ByteMod + Rsp!VByte(v0[i.vd], i.e + 1)
  <2>3. x \in Word
    BY <2>1, <2>2, GetByteSame, FromBytes
  <2>4. r1 = Rsp!SetGpr(r0, i.rt, Int16(x)) /\ v1 = v0 /\ c1 = c0
    BY <1>2 DEF Mfc2Step
  <2> HIDE DEF x
  <2>5. Int16(x) \in Int
    BY <2>3, LanePattern, SmallFits
  <2> QED
    BY <2>1, <2>4, <2>5, SetGprType
<1>3. CASE Mtc2Step(i, v0, v1, c0, c1, r0, r1)
  <2>1. i.e \in 0 .. 15 /\ i.vd \in Rsp!Vecs /\ i.rt \in Rsp!Gprs
    BY <1>3, InsnFields DEF Mtc2Step
  <2>2. v0[i.vd] \in [Rsp!Lanes -> Lane] /\ r0[i.rt] \in Nat
    BY <2>1, GprIsNat DEF VecRegs
  <2> DEFINE h == r0[i.rt] % LaneMod
             first == Rsp!SetVByte(v0[i.vd], i.e, h \div ByteMod)
             x == IF i.e = 15 THEN first ELSE Rsp!SetVByte(first, i.e + 1, h % ByteMod)
  <2>3. x \in [Rsp!Lanes -> Lane]
    BY <2>1, <2>2, Mtc2Type
  <2>4. v1 = [v0 EXCEPT ![i.vd] = x] /\ c1 = c0 /\ r1 = r0
    BY <1>3 DEF Mtc2Step
  <2> HIDE DEF x
  <2> QED
    BY <2>1, <2>3, <2>4 DEF VecRegs
<1>4. CASE Cfc2Step(i, v0, v1, c0, c1, r0, r1)
  <2>1. i.rt \in Rsp!Gprs
    BY <1>4, InsnFields DEF Cfc2Step
  <2>2. Wrap(Rsp!GetVFlags(i.vd, c0), 32768) \in Int
    <3>1. Rsp!GetVFlags(i.vd, c0) \in Int
      BY VFlagsInt
    <3> QED
      BY <3>1, WrapFacts
  <2> QED
    BY <1>4, <2>1, <2>2, SetGprType DEF Cfc2Step
<1>5. CASE Ctc2Step(i, v0, v1, c0, c1, r0, r1)
  <2>1. i.rt \in Rsp!Gprs
    BY <1>5, InsnFields DEF Ctc2Step
  <2>2. r0[i.rt] % 65536 \in Int
    BY <2>1, GprIsNat
  <2> QED
    BY <1>5, <2>2, SetVFlagsType DEF Ctc2Step
<1> QED
  BY <1>1, <1>2, <1>3, <1>4, <1>5 DEF VecStep

-----------------------------------------------------------------------------
(* Translated code takes the interpreter's steps.                          *)

\* What the locals hold.
Held == vec \in VecPatterns /\ lcell \in [Rsp!Lanes -> Local]
          /\ CellOut(lcell) \in [Rsp!Lanes -> Cell] /\ gpr \in Rsp!RFile

\* Patterns of the right registers are the result of the right step.
LEMMA FromPatterns ==
    ASSUME Held, NEW i \in VecInsns, NEW v1, NEW c1,
           VecStep(i, VecOut(vec), v1, CellOut(lcell), c1, gpr, gpr'),
           vec' = VecIn(v1), lcell' = CellIn(c1)
    PROVE  Held' /\ VecStep(i, VecOut(vec), VecOut(vec)', CellOut(lcell), CellOut(lcell)',
                            gpr, gpr')
<1>1. VecOut(vec) \in VecRegs
  BY VecOutIn DEF Held
<1>2. v1 \in VecRegs /\ c1 \in [Rsp!Lanes -> Cell] /\ gpr' \in Rsp!RFile
  BY <1>1, StepType DEF Held
<1>3. VecIn(v1) \in VecPatterns /\ VecOut(VecIn(v1)) = v1
  BY <1>2, VecInOut
<1>4. CellIn(c1) \in [Rsp!Lanes -> Local] /\ CellOut(CellIn(c1)) = c1
  BY <1>2, CellInOut
<1>5. VecOut(vec)' = v1
  <2>1. VecOut(vec)' = VecOut(vec')
    BY DEF VecOut, Rsp!Vecs, Rsp!Lanes, Signed, LaneMod
  <2> QED
    BY <1>3, <2>1
<1>6. CellOut(lcell)' = c1
  <2>1. CellOut(lcell)' = CellOut(lcell')
    BY DEF CellOut, Rsp!Lanes
  <2> QED
    BY <1>4, <2>1
<1>7. Held'
  BY <1>2, <1>3, <1>4, <1>6 DEF Held
<1> QED
  BY <1>5, <1>6, <1>7

LEMMA VectorTranslated ==
    ASSUME Held, NEW i \in VecInsns, Vector(i)
    PROVE  Held' /\ VecStep(i, VecOut(vec), VecOut(vec)', CellOut(lcell), CellOut(lcell)',
                            gpr, gpr')
<1> DEFINE v0 == VecOut(vec)
           c0 == CellOut(lcell)
           op(k) == LaneOp(i.fn, i.e, c0[k], v0[i.vs][k], v0[i.vt][Rsp!VtLane(i.e, k)])
           ir(k) == DoOp(i.fn, i.e, lcell[k], vec[i.vs][k], VtSelect(vec[i.vt], i.e)[k])
           res == [k \in Rsp!Lanes |-> op(k).res]
           v1 == [v0 EXCEPT ![i.vd] = res]
           c1 == [k \in Rsp!Lanes |-> op(k).cell]
<1>1. /\ i.fn \in VecFns \cap Emitted /\ i.e \in 0 .. 15
      /\ i.vs \in Rsp!Vecs /\ i.vt \in Rsp!Vecs /\ i.vd \in Rsp!Vecs
  BY InsnFields DEF Vector, Translated
<1>2. /\ v0 \in VecRegs /\ VecIn(v0) = vec
      /\ c0 \in [Rsp!Lanes -> Cell] /\ CellIn(c0) = lcell
  BY VecOutIn, CellOutIn DEF Held
<1> HIDE DEF v0, c0
<1>3. ASSUME NEW k \in Rsp!Lanes
      PROVE  Same(ir(k), op(k))
  <2> DEFINE s == v0[i.vs][k]
             t == v0[i.vt][Rsp!VtLane(i.e, k)]
  <2>1. k \in 0 .. 7 /\ Rsp!Lanes = 0 .. 7
    BY RspSets
  <2>2. Rsp!VtLane(i.e, k) \in Rsp!Lanes
        /\ (IF i.e < 2 THEN k ELSE Mask(i.e, k)) = Rsp!VtLane(i.e, k)
    BY <1>1, <2>1, MaskIsVtLane
  <2>3. c0[k] \in Cell /\ s \in Lane /\ t \in Lane
    BY <1>1, <1>2, <2>2 DEF VecRegs
  <2>4. vec[i.vs][k] = Un(s) /\ vec[i.vt][Rsp!VtLane(i.e, k)] = Un(t) /\ lcell[k] = In(c0[k])
    BY <1>1, <1>2, <2>2 DEF VecIn, CellIn
  <2>5. VtSelect(vec[i.vt], i.e)[k] = vec[i.vt][Rsp!VtLane(i.e, k)]
    BY <2>2 DEF VtSelect
  <2> HIDE DEF s, t
  <2>6. Same(DoOp(i.fn, i.e, In(c0[k]), Un(s), Un(t)), LaneOp(i.fn, i.e, c0[k], s, t))
    BY <1>1, <2>3, LaneStep
  <2> QED
    BY <2>4, <2>5, <2>6 DEF s, t
<1>4. /\ vec' = [vec EXCEPT ![i.vd] = [k \in Rsp!Lanes |-> ir(k).res]]
      /\ lcell' = [k \in Rsp!Lanes |-> ir(k).cell]
      /\ gpr' = gpr
  BY DEF Vector
<1>5. VecStep(i, v0, v1, c0, c1, gpr, gpr')
  <2>1. OperationStep(i, v0, v1, c0, c1, gpr, gpr')
    BY <1>1, <1>4 DEF OperationStep
  <2> QED
    BY <2>1 DEF VecStep
<1> HIDE DEF op, ir
<1>6. \A k \in Rsp!Lanes :
          op(k).res \in Lane /\ ir(k).res = Un(op(k).res) /\ ir(k).cell = In(op(k).cell)
  BY <1>3 DEF Same
<1>7. lcell' = CellIn(c1)
  BY <1>4, <1>6 DEF CellIn
<1>8. vec' = VecIn(v1)
  <2>1. [k \in Rsp!Lanes |-> ir(k).res] = [k \in Rsp!Lanes |-> Un(res[k])]
    BY <1>6
  <2>2. vec' = [vec EXCEPT ![i.vd] = [k \in Rsp!Lanes |-> Un(res[k])]]
    BY <1>4, <2>1
  <2>3. vec = VecIn(v0)
    BY <1>2
  <2> HIDE DEF res
  <2> QED
    BY <1>1, <1>2, <2>2, <2>3 DEF VecIn, VecRegs
<1> HIDE DEF v1, c1
<1> QED
  BY <1>5, <1>7, <1>8, FromPatterns DEF v0, c0

LEMMA Mfc2Translated ==
    ASSUME Held, NEW i \in VecInsns, Mfc2(i)
    PROVE  Held' /\ VecStep(i, VecOut(vec), VecOut(vec)', CellOut(lcell), CellOut(lcell)',
                            gpr, gpr')
<1> DEFINE v0 == VecOut(vec)
           c0 == CellOut(lcell)
           x == Rsp!VByte(v0[i.vd], i.e) * ByteMod + Rsp!VByte(v0[i.vd], i.e + 1)
<1>1. /\ i.fn = "mfc2" /\ i.e \in 0 .. 16 /\ i.e + 1 \in 0 .. 16
      /\ i.rt \in Rsp!Gprs /\ i.vd \in Rsp!Vecs
  BY InsnFields DEF Mfc2
<1>2. /\ v0 \in VecRegs /\ VecIn(v0) = vec
      /\ c0 \in [Rsp!Lanes -> Cell] /\ CellIn(c0) = lcell
  BY VecOutIn, CellOutIn DEF Held
<1>3. v0[i.vd] \in [Rsp!Lanes -> Lane] /\ vec[i.vd] = Patterns(v0[i.vd])
  BY <1>1, <1>2 DEF VecRegs, VecIn, Patterns
<1>4. GetByte(vec[i.vd], i.e) = Rsp!VByte(v0[i.vd], i.e)
      /\ GetByte(vec[i.vd], i.e + 1) = Rsp!VByte(v0[i.vd], i.e + 1)
      /\ x \in Word
  BY <1>1, <1>3, GetByteSame, FromBytes
<1>5. Signed(x, LaneMod) = Int16(x)
  BY <1>4, LanePattern
<1>6. gpr' = Rsp!SetGpr(gpr, i.rt, Signed(x, LaneMod)) /\ vec' = vec /\ lcell' = lcell
  BY <1>4 DEF Mfc2
<1>7. VecStep(i, v0, v0, c0, c0, gpr, gpr')
  <2>1. Mfc2Step(i, v0, v0, c0, c0, gpr, gpr')
    BY <1>1, <1>5, <1>6 DEF Mfc2Step
  <2> QED
    BY <2>1 DEF VecStep
<1> QED
  BY <1>2, <1>6, <1>7, FromPatterns

LEMMA Mtc2Translated ==
    ASSUME Held, NEW i \in VecInsns, Mtc2(i)
    PROVE  Held' /\ VecStep(i, VecOut(vec), VecOut(vec)', CellOut(lcell), CellOut(lcell)',
                            gpr, gpr')
<1> DEFINE v0 == VecOut(vec)
           c0 == CellOut(lcell)
           g == gpr[i.rt]
           h == g % LaneMod
           hi == h \div ByteMod
           lo == h % ByteMod
           first == Rsp!SetVByte(v0[i.vd], i.e, hi)
           x == IF i.e = 15 THEN first ELSE Rsp!SetVByte(first, i.e + 1, lo)
           v1 == [v0 EXCEPT ![i.vd] = x]
           irFirst == SetByte(vec[i.vd], i.e, LShr(g, ByteMod))
           irX == IF i.e # 15 THEN SetByte(irFirst, i.e + 1, g) ELSE irFirst
<1>1. /\ i.fn = "mtc2" /\ i.e \in 0 .. 15 /\ i.e \in 0 .. 16 /\ i.e + 1 \in 0 .. 16
      /\ i.rt \in Rsp!Gprs /\ i.vd \in Rsp!Vecs
  BY InsnFields DEF Mtc2
<1>2. /\ v0 \in VecRegs /\ VecIn(v0) = vec
      /\ c0 \in [Rsp!Lanes -> Cell] /\ CellIn(c0) = lcell
  BY VecOutIn, CellOutIn DEF Held
<1>3. v0[i.vd] \in [Rsp!Lanes -> Lane] /\ vec[i.vd] = Patterns(v0[i.vd])
  BY <1>1, <1>2 DEF VecRegs, VecIn, Patterns
<1>4. g \in Nat
  BY <1>1, GprIsNat DEF Held
<1>5. /\ hi \in Bytes /\ LShr(g, ByteMod) % ByteMod = hi
      /\ lo \in Bytes /\ g % ByteMod = lo
  BY <1>4, LowBytes, TwoBytes DEF LShr
<1>6. vec' = [vec EXCEPT ![i.vd] = irX] /\ lcell' = lcell /\ gpr' = gpr
  BY DEF Mtc2
<1>7. VecStep(i, v0, v1, c0, c0, gpr, gpr')
  <2>1. Mtc2Step(i, v0, v1, c0, c0, gpr, gpr')
    BY <1>1, <1>6 DEF Mtc2Step
  <2> QED
    BY <2>1 DEF VecStep
<1> HIDE DEF v0, c0, g, hi, lo
<1>8. first \in [Rsp!Lanes -> Lane] /\ irFirst = Patterns(first)
  BY <1>1, <1>3, <1>5, SetByteSame
<1> HIDE DEF first, irFirst
<1>9. /\ Rsp!SetVByte(first, i.e + 1, lo) \in [Rsp!Lanes -> Lane]
      /\ SetByte(irFirst, i.e + 1, g) = Patterns(Rsp!SetVByte(first, i.e + 1, lo))
  BY <1>1, <1>5, <1>8, SetByteSame
<1>10. x \in [Rsp!Lanes -> Lane] /\ irX = Patterns(x)
  BY <1>8, <1>9
<1> HIDE DEF x, irX
<1>11. vec' = VecIn(v1)
  <2>1. vec' = [vec EXCEPT ![i.vd] = [k \in Rsp!Lanes |-> Un(x[k])]]
    BY <1>6, <1>10 DEF Patterns
  <2>2. vec = VecIn(v0)
    BY <1>2
  <2> QED
    BY <1>1, <1>2, <2>1, <2>2 DEF VecIn, VecRegs
<1> HIDE DEF v1
<1> QED
  BY <1>2, <1>6, <1>7, <1>11, FromPatterns DEF v0, c0

-----------------------------------------------------------------------------
(* The invariant. *)

Outside == v \in VecRegs /\ cell \in [Rsp!Lanes -> Cell] /\ r \in Rsp!RFile

Control == mode \in {"bt", "interp"} /\ insn \in VecInsns \cup {Rsp!NoInsn}
             /\ steps \in 0 .. MaxSteps

LEMMA TypeParts == TypeOK <=> Outside /\ Held /\ Control
  BY RspSets DEF TypeOK, Outside, Held, Control, VecPatterns

\* Entering the function brings rsp_t into the locals.
LEMMA Entered ==
    ASSUME Outside, vec' = VecIn(v), lcell' = CellIn(cell), gpr' = r
    PROVE  Held' /\ VecOut(vec)' = v /\ CellOut(lcell)' = cell
<1>1. VecIn(v) \in VecPatterns /\ VecOut(VecIn(v)) = v
  BY VecInOut DEF Outside
<1>2. CellIn(cell) \in [Rsp!Lanes -> Local] /\ CellOut(CellIn(cell)) = cell
  BY CellInOut DEF Outside
<1>3. VecOut(vec)' = VecOut(vec') /\ CellOut(lcell)' = CellOut(lcell')
  BY DEF VecOut, CellOut, Rsp!Vecs, Rsp!Lanes, Signed, LaneMod
<1> QED
  BY <1>1, <1>2, <1>3 DEF Held, Outside

LEMMA InitType == Init => TypeOK
<1> SUFFICES ASSUME Init PROVE TypeOK
  OBVIOUS
<1>1. Outside
  BY StartsAssumption, RspSets DEF Init, Outside
<1>2. vec = VecIn(v) /\ lcell = CellIn(cell) /\ gpr = r
  BY DEF Init
<1>3. Held
  BY <1>1, <1>2, VecInOut, CellInOut DEF Held, Outside
<1> QED
  BY <1>1, <1>3, TypeParts, StepsAssumption DEF Init, Control

LEMMA NextType == TypeOK /\ [Next]_vars => TypeOK'
<1> SUFFICES ASSUME TypeOK, [Next]_vars PROVE TypeOK'
  OBVIOUS
<1>1. Outside /\ Held /\ Control
  BY TypeParts
<1>2. SUFFICES Outside' /\ Held' /\ Control'
  BY TypeParts, PTL
<1> USE DEF Control
<1>3. CASE Enter
  <2>1. Held'
    BY <1>1, <1>3, Entered DEF Enter
  <2> QED
    BY <1>1, <1>3, <2>1 DEF Enter, Outside, rsp
<1>4. CASE Leave
  <2>1. VecOut(vec) \in VecRegs
    BY <1>1, VecOutIn DEF Held
  <2> QED
    BY <1>1, <1>4, <2>1 DEF Leave, Outside, Held, locals
<1>5. ASSUME NEW i \in VecInsns, Vector(i) \/ Mfc2(i) \/ Mtc2(i)
      PROVE  Held' /\ Translated(i)
  BY <1>1, <1>5, VectorTranslated, Mfc2Translated, Mtc2Translated DEF Vector, Mfc2, Mtc2
<1>6. ASSUME NEW i \in VecInsns, Translated(i), Held'
      PROVE  Outside' /\ Control'
  BY <1>1, <1>6, StepsAssumption DEF Translated, Count, Outside, rsp
<1>7. ASSUME NEW i \in VecInsns, Interpret(i)
      PROVE  Outside' /\ Held' /\ Control'
  <2>1. insn' = i /\ VecStep(i, v, v', cell, cell', r, r')
    BY <1>7, RspRun DEF Interpret
  <2>2. Outside'
    BY <1>1, <2>1, StepType DEF Outside
  <2> QED
    BY <1>1, <1>7, <2>1, <2>2, StepsAssumption DEF Interpret, Count, Held, locals
<1>8. CASE UNCHANGED vars
  BY <1>1, <1>8 DEF vars, Outside, Held
<1> QED
  BY <1>3, <1>4, <1>5, <1>6, <1>7, <1>8 DEF Next

\* Registers, accumulators and flags hold what their widths allow, in rsp_t and
\* in the locals of the generated function, whatever is run; in particular an
\* accumulator never leaves its 48 bits (rsp.cc:128-130).
THEOREM VecTypeCorrect == Spec => []TypeOK
  BY InitType, NextType, PTL DEF Spec

-----------------------------------------------------------------------------
(* The refinement. *)

\* Entry and exit leave the unit as the program sees it.
LEMMA HandOver ==
    ASSUME TypeOK, Enter \/ Leave
    PROVE  UnitVecs' = UnitVecs /\ UnitCells' = UnitCells /\ UnitRegs' = UnitRegs
           /\ insn' = insn
<1>1. Outside
  BY TypeParts
<1>2. CASE Enter
  <2>1. VecOut(vec)' = v /\ CellOut(lcell)' = cell
    BY <1>1, <1>2, Entered DEF Enter
  <2> QED
    BY <1>2, <2>1 DEF Enter, UnitVecs, UnitCells, UnitRegs, Inside
<1>3. CASE Leave
  BY <1>3 DEF Leave, UnitVecs, UnitCells, UnitRegs, Inside
<1> QED
  BY <1>2, <1>3

LEMMA CoreInit == Init => Core!Init
<1> SUFFICES ASSUME Init PROVE Core!Init
  OBVIOUS
<1>1. UnitVecs = v /\ UnitCells = cell /\ ~Inside
  BY DEF Init, UnitVecs, UnitCells, Inside
<1>2. v \in [Rsp!Vecs -> Rsp!VecVal] /\ cell \in [Rsp!Lanes -> Cell] /\ r \in Rsp!RFile
  BY StartsAssumption DEF Init
<1>3. Core!Vecs = Rsp!Vecs /\ Core!Lanes = Rsp!Lanes /\ Core!RFile = Rsp!RFile
      /\ Core!NoInsn = Rsp!NoInsn
  BY DEF Core!Vecs, Rsp!Vecs, Core!Lanes, Rsp!Lanes, Core!RFile, Rsp!RFile, Core!Gprs,
         Rsp!Gprs, Core!NoInsn, Rsp!NoInsn
<1>4. Core!VecVal = Rsp!VecVal
  BY CoreOps, RspOps, <1>3 DEF Core!VecVal, Rsp!VecVal, Core!Lane, Rsp!Lane
<1>5. Core!Cell = Cell
  <2>1. Core!AccHalf = AccHalf
    BY CoreOps DEF Core!AccHalf, AccHalf
  <2> QED
    BY <2>1 DEF Core!Cell, Cell, Core!Acc, Acc
<1>6. insn = Rsp!NoInsn
  BY DEF Init
<1> QED
  BY <1>1, <1>2, <1>3, <1>4, <1>5, <1>6 DEF Core!Init

LEMMA CoreNext == TypeOK /\ [Next]_vars => [Core!Next]_Core!vars
<1> SUFFICES ASSUME TypeOK, [Next]_vars PROVE [Core!Next]_Core!vars
  OBVIOUS
<1>1. Outside /\ Held
  BY TypeParts
<1>2. ASSUME UnitVecs' = UnitVecs, UnitCells' = UnitCells, UnitRegs' = UnitRegs,
             insn' = insn
      PROVE  UNCHANGED Core!vars
  BY <1>2 DEF Core!vars, UnitRegs
<1>3. CASE Enter \/ Leave
  BY <1>2, <1>3, HandOver
<1>4. ASSUME NEW i \in VecInsns, Vector(i) \/ Mfc2(i) \/ Mtc2(i)
      PROVE  Core!Run(i)
  <2>1. Translated(i)
    BY <1>4 DEF Vector, Mfc2, Mtc2
  <2>2. VecStep(i, VecOut(vec), VecOut(vec)', CellOut(lcell), CellOut(lcell)', gpr, gpr')
    BY <1>1, <1>4, VectorTranslated, Mfc2Translated, Mtc2Translated
  <2>3. /\ UnitVecs = VecOut(vec) /\ UnitVecs' = VecOut(vec)'
        /\ UnitCells = CellOut(lcell) /\ UnitCells' = CellOut(lcell)'
        /\ UnitRegs = gpr /\ UnitRegs' = gpr' /\ insn' = i
    BY <2>1 DEF Translated, UnitVecs, UnitCells, UnitRegs, Inside
  <2> QED
    BY <2>2, <2>3, CoreRun
<1>5. ASSUME NEW i \in VecInsns, Interpret(i)
      PROVE  Core!Run(i)
  <2>1. insn' = i /\ VecStep(i, v, v', cell, cell', r, r')
    BY <1>5, RspRun DEF Interpret
  <2>2. /\ UnitVecs = v /\ UnitVecs' = v' /\ UnitCells = cell /\ UnitCells' = cell'
        /\ UnitRegs = r /\ UnitRegs' = r'
    BY <1>5 DEF Interpret, UnitVecs, UnitCells, UnitRegs, Inside
  <2> QED
    BY <2>1, <2>2, CoreRun
<1>6. CASE UNCHANGED vars
  <2>1. UnitVecs' = UnitVecs /\ UnitCells' = UnitCells /\ UnitRegs' = UnitRegs
        /\ insn' = insn
    BY <1>6 DEF vars, UnitVecs, UnitCells, UnitRegs, Inside, VecOut, CellOut
  <2> QED
    BY <1>2, <2>1
<1> QED
  BY <1>3, <1>4, <1>5, <1>6 DEF Next, Core!Next

\* The IR that rspInstruction.cc and rspFunc.cc emit for the vector unit, with
\* the entry and the exit of the function, implements the interpreter, whatever
\* the width of the lanes, the registers and the instructions (rspbt.hh:13-14).
THEOREM VectorUnitImplementsInterpreter == Spec => ImplementsCore
<1>1. Spec => []TypeOK
  BY VecTypeCorrect
<1> QED
  BY <1>1, CoreInit, CoreNext, PTL DEF Spec, ImplementsCore, Core!Spec

-----------------------------------------------------------------------------
(* What sequences of operations compute.                                   *)

LEMMA UnitType ==
    ASSUME TypeOK
    PROVE  UnitVecs \in VecRegs /\ UnitCells \in [Rsp!Lanes -> Cell]
<1>1. Outside /\ Held
  BY TypeParts
<1>2. VecOut(vec) \in VecRegs
  BY <1>1, VecOutIn DEF Held
<1> QED
  BY <1>1, <1>2 DEF UnitVecs, UnitCells, Outside, Held

\* Dividing twice.
LEMMA DivDiv ==
    ASSUME NEW a \in Int
    PROVE  /\ a \div LaneMod \in Int
           /\ (a \div LaneMod) \div LaneMod = a \div (LaneMod * LaneMod)
<1>1. LaneMod \in Nat /\ LaneMod > 0 /\ LaneMod * LaneMod \in Nat /\ LaneMod * LaneMod > 0
  BY LaneSize, AccSize DEF Square
<1> DEFINE q == a \div LaneMod
           m == a % LaneMod
           u == q \div LaneMod
           w == q % LaneMod
           low == LaneMod * w + m
<1>2. m \in 0 .. LaneMod - 1 /\ q \in Int /\ a = LaneMod * q + m
  BY <1>1, DivMod
<1> HIDE DEF q, m
<1>3. w \in 0 .. LaneMod - 1 /\ u \in Int /\ q = LaneMod * u + w
  BY <1>1, <1>2, DivMod
<1> HIDE DEF u, w
<1>4. low \in 0 .. LaneMod * LaneMod - 1
  <2>1. LaneMod * (LaneMod - w) >= LaneMod
        /\ LaneMod * (LaneMod - w) = LaneMod * LaneMod - LaneMod * w
    BY <1>1, <1>3, MulStep, Distribute
  <2>2. LaneMod * w \in Nat
    BY <1>1, <1>3
  <2> QED
    BY <1>1, <1>2, <2>1, <2>2
<1>5. a = (LaneMod * LaneMod) * u + low
  <2>1. LaneMod * q = LaneMod * (LaneMod * u) + LaneMod * w
    BY <1>1, <1>3, Distribute
  <2>2. LaneMod * (LaneMod * u) = (LaneMod * LaneMod) * u
    BY <1>1, <1>3
  <2>3. (LaneMod * LaneMod) * u \in Int /\ LaneMod * w \in Int
    BY <1>1, <1>3
  <2> QED
    BY <1>2, <2>1, <2>2, <2>3
<1> HIDE DEF low
<1>6. a \div (LaneMod * LaneMod) = u
  <2>1. ((LaneMod * LaneMod) * u + low) \div (LaneMod * LaneMod) = u
    BY <1>1, <1>3, <1>4, DivModUnique
  <2> QED
    BY <1>5, <2>1
<1> QED
  BY <1>2, <1>6 DEF q, u

\* An accumulator's three slices.
LEMMA SlicesAre ==
    ASSUME NEW a \in Acc
    PROVE  a = Slice(a, 8) * LaneMod * LaneMod + Un(Slice(a, 9)) * LaneMod + Un(Slice(a, 10))
<1>1. LaneMod \in Nat /\ LaneMod > 0 /\ a \in Int
  BY LaneSize, SmallFits
<1> DEFINE q == a \div LaneMod
           m == a % LaneMod
           u == q \div LaneMod
           w == q % LaneMod
<1>2. m \in 0 .. LaneMod - 1 /\ q \in Int /\ a = LaneMod * q + m
  BY <1>1, DivMod
<1>3. u = a \div (LaneMod * LaneMod)
  BY <1>1, DivDiv
<1>4. w \in 0 .. LaneMod - 1 /\ u \in Int /\ q = LaneMod * u + w
  <2> HIDE DEF q
  <2> QED
    BY <1>1, <1>2, DivMod
<1>5. u \in Lane
  <2>1. a >= -AccHalf /\ a <= AccHalf - 1 /\ Half \in Nat /\ AccHalf \in Nat
    BY AccSize, LaneSize DEF Acc
  <2>2. AccHalf = (LaneMod * LaneMod) * Half
    BY AccSize DEF Square
  <2> DEFINE S == LaneMod * LaneMod
             low == LaneMod * w + m
  <2>3. a = S * u + low /\ low >= 0 /\ low < S /\ S \in Nat /\ S > 0 /\ S * u \in Int /\ low \in Int
    <3>1. LaneMod * q = LaneMod * (LaneMod * u) + LaneMod * w
      <4> HIDE DEF u, w
      <4> QED
        BY <1>1, <1>4, Distribute
    <3>2. LaneMod * (LaneMod * u) = S * u /\ S * u \in Int /\ LaneMod * w \in Nat
          /\ S \in Nat /\ S > 0
      <4> HIDE DEF u, w
      <4> QED
        BY <1>1, <1>4, AccSize DEF Square
    <3>3. LaneMod * (LaneMod - w) >= LaneMod
          /\ LaneMod * (LaneMod - w) = S - LaneMod * w
      <4> HIDE DEF w
      <4> QED
        BY <1>1, <1>4, MulStep, Distribute
    <3> HIDE DEF u, w, q, m, S
    <3> QED
      BY <1>1, <1>2, <3>1, <3>2, <3>3
  <2> HIDE DEF S, u, low
  <2>4. u >= -Half
    <3>1. u + Half <= -1 => S * (u + Half) <= -S
      BY <1>4, <2>1, <2>3, MulStep
    <3>2. S * (u + Half) = S * u + S * Half /\ S * Half \in Int
      BY <1>4, <2>1, <2>3, Distribute
    <3>3. S * Half = AccHalf
      BY <2>2 DEF S
    <3> QED
      BY <1>4, <2>1, <2>3, <3>1, <3>2, <3>3
  <2>5. u < Half
    <3>1. u - Half >= 1 => S * (u - Half) >= S
      BY <1>4, <2>1, <2>3, MulStep
    <3>2. S * (u - Half) = S * u - S * Half /\ S * Half \in Int
      BY <1>4, <2>1, <2>3, Distribute
    <3>3. S * Half = AccHalf /\ (u = Half => S * u = S * Half)
      BY <2>2 DEF S
    <3> QED
      BY <1>4, <2>1, <2>3, <3>1, <3>2, <3>3
  <2> QED
    BY <1>4, <2>1, <2>4, <2>5 DEF Lane
<1>6. Slice(a, 8) = u /\ Un(Slice(a, 9)) = w /\ Un(Slice(a, 10)) = m
  <2>1. Slice(a, 8) = Int16(u) /\ Slice(a, 9) = Int16(q) /\ Slice(a, 10) = Int16(a)
    BY <1>3 DEF Slice
  <2>2. \A x \in Int : Un(Int16(x)) = Un(x)
    BY LaneSigned, LanePattern
  <2>3. Int16(u) = u
    BY <1>5, LaneInt16
  <2> HIDE DEF u, q
  <2> QED
    BY <1>1, <1>2, <2>1, <2>2, <2>3 DEF Un
<1> HIDE DEF u, w, m, q
<1>7. LaneMod * q = (u * LaneMod) * LaneMod + w * LaneMod
  <2>1. LaneMod * q = LaneMod * (LaneMod * u) + LaneMod * w
    BY <1>1, <1>4, Distribute
  <2>2. LaneMod * (LaneMod * u) = (u * LaneMod) * LaneMod /\ LaneMod * w = w * LaneMod
    BY <1>1, <1>4
  <2> QED
    BY <2>1, <2>2
<1> QED
  BY <1>2, <1>6, <1>7

\* What vsar reads is the whole accumulator (rsp.cc:305-307), because every
\* operation brings it back to its 48 bits (rsp.cc:128-130).
THEOREM VsarReadsAll == Spec => []VsarReadsWholeAccumulator
<1>1. TypeOK => VsarReadsWholeAccumulator
  BY UnitType, CellFields, SlicesAre DEF VsarReadsWholeAccumulator
<1> QED
  BY <1>1, VecTypeCorrect, PTL

\* A number of two halves, and its parts.
LEMMA WideParts ==
    ASSUME NEW hi \in Int, NEW x \in 0 .. LaneMod - 1, NEW y, y = LaneMod * hi + x
    PROVE  y % LaneMod = x /\ y \div LaneMod = hi
  BY LaneSize, DivModUnique

LEMMA DoubleAddLane ==
    ASSUME NEW c \in Cell, NEW s0 \in Lane, NEW s1 \in Lane, NEW t0 \in Lane, NEW t1 \in Lane
    PROVE  LET low == LaneOp("vaddc", 0, c, s1, t1)
               high == LaneOp("vadd", 0, low.cell, s0, t0)
               sum == Wide(s0, s1) + Wide(t0, t1)
           IN  /\ Un(low.res) = sum % LaneMod
               /\ high.res = Clamp(sum \div LaneMod)
               /\ ~high.cell.vco_l
<1> DEFINE su == Un(s1)
           tu == Un(t1)
           x == su + tu
           carry == x >= LaneMod
           low == LaneOp("vaddc", 0, c, s1, t1)
           high == LaneOp("vadd", 0, low.cell, s0, t0)
           sum == Wide(s0, s1) + Wide(t0, t1)
<1>1. /\ s0 \in Int /\ t0 \in Int /\ su \in 0 .. LaneMod - 1 /\ tu \in 0 .. LaneMod - 1
      /\ LaneMod \in Nat /\ LaneMod > 0
  BY Operands, LaneSize DEF Word
<1>2. low = Vaddc(c, s1, t1)
  BY DEF LaneOp, Products, FromZero, Onto, Selections
<1>3. low.res = Int16(x) /\ low.cell.vco_l = carry
  <2> DEFINE d == [c EXCEPT !.acc = WithLow(@, x), !.vco_l = carry, !.vco_h = FALSE]
  <2>1. low = [res |-> Int16(x), cell |-> d]
    BY <1>2 DEF Vaddc
  <2>2. d.vco_l = carry
    <3> HIDE DEF carry, x
    <3> QED
      BY DEF Cell
  <2> HIDE DEF low, d
  <2> QED
    BY <2>1, <2>2
<1>4. high = Add(low.cell, s0 + t0 + Bit(low.cell.vco_l))
  BY DEF LaneOp, Vadd, Products, FromZero, Onto, Selections
<1>5. low.cell \in Cell
  <2>1. "vaddc" \in VecFns /\ 0 \in 0 .. 15
    BY DEF VecFns
  <2> QED
    BY <2>1, LaneOpType
<1>6. high.res = Clamp(s0 + t0 + Bit(carry)) /\ ~high.cell.vco_l
  <2> HIDE DEF low, high, carry
  <2>1. [low.cell EXCEPT !.acc = WithLow(@, s0 + t0 + Bit(carry)), !.vco_l = FALSE,
                         !.vco_h = FALSE].vco_l = FALSE
    BY <1>5 DEF Cell
  <2> QED
    BY <1>3, <1>4, <2>1 DEF Add
<1>7. sum = LaneMod * (s0 + t0) + x
  <2>1. s0 * LaneMod = LaneMod * s0 /\ t0 * LaneMod = LaneMod * t0
        /\ LaneMod * s0 \in Int /\ LaneMod * t0 \in Int
    BY <1>1
  <2>2. LaneMod * (s0 + t0) = LaneMod * s0 + LaneMod * t0
    BY <1>1, Distribute
  <2> QED
    BY <1>1, <2>1, <2>2 DEF Wide
<1>8. sum % LaneMod = Un(x) /\ sum \div LaneMod = s0 + t0 + Bit(carry)
  <2> HIDE DEF su, tu, sum
  <2>1. CASE carry
    <3>1. x - LaneMod \in 0 .. LaneMod - 1 /\ x = LaneMod * 1 + (x - LaneMod)
          /\ s0 + t0 + 1 \in Int
      BY <1>1, <2>1
    <3>2. sum = LaneMod * (s0 + t0 + 1) + (x - LaneMod)
      <4>1. LaneMod * (s0 + t0 + 1) = LaneMod * (s0 + t0) + LaneMod * 1
        BY <1>1, Distribute
      <4> QED
        BY <1>1, <1>7, <4>1
    <3>3. x % LaneMod = x - LaneMod
      BY <1>1, <3>1, DivModUnique
    <3> HIDE DEF x
    <3>4. sum % LaneMod = x - LaneMod /\ sum \div LaneMod = s0 + t0 + 1
      BY <3>1, <3>2, WideParts
    <3> QED
      BY <2>1, <3>3, <3>4 DEF Bit, Un
  <2>2. CASE ~carry
    <3>1. x \in 0 .. LaneMod - 1 /\ x = LaneMod * 0 + x /\ s0 + t0 \in Int
      BY <1>1, <2>2
    <3>2. x % LaneMod = x
      BY <1>1, <3>1, DivModUnique
    <3>3. sum % LaneMod = x /\ sum \div LaneMod = s0 + t0
      <4> HIDE DEF x
      <4> QED
        BY <1>7, <3>1, WideParts
    <3>4. Bit(carry) = 0
      BY <2>2 DEF Bit
    <3> QED
      BY <1>1, <3>2, <3>3, <3>4 DEF Un
  <2> QED
    BY <2>1, <2>2
<1>9. Un(Int16(x)) = Un(x)
  BY <1>1, LaneSigned, LanePattern
<1> QED
  BY <1>3, <1>6, <1>8, <1>9

\* The carry that vaddc leaves makes vaddc and vadd an addition of twice the width
\* of a lane, whatever the width and whatever the flags before it
\* (rsp.cc:280-287, 296-304).
THEOREM VaddcThenVaddAdds ==
    ASSUME NumVecs >= 4
    PROVE  Spec => []DoubleAdd
<1>1. TypeOK => DoubleAdd
  <2> SUFFICES ASSUME TypeOK, NEW k \in Rsp!Lanes
               PROVE  LET low == Then("vaddc", UnitCells[k], 1, 3, k)
                          high == Then("vadd", low.cell, 0, 2, k)
                          sum == First(k) + Second(k)
                      IN  /\ Un(low.res) = sum % LaneMod
                          /\ high.res = Clamp(sum \div LaneMod)
                          /\ ~high.cell.vco_l
    BY DEF DoubleAdd
  <2>1. UnitCells[k] \in Cell /\ UnitVecs[0][k] \in Lane /\ UnitVecs[1][k] \in Lane
        /\ UnitVecs[2][k] \in Lane /\ UnitVecs[3][k] \in Lane
    BY UnitType, VecAssumption DEF VecRegs, Rsp!Vecs
  <2> QED
    BY <2>1, DoubleAddLane DEF Then, First, Second
<1> QED
  BY <1>1, VecTypeCorrect, PTL

\* The sum of the partial products, while it still has bits below it.
LEMMA PartialSums ==
    ASSUME NEW s0 \in Lane, NEW s1 \in Lane, NEW t0 \in Lane, NEW t1 \in Lane
    PROVE  LET p == (Un(s1) * Un(t1)) \div LaneMod
           IN  /\ p \in Acc
               /\ s0 * Un(t1) + p \in Acc
               /\ Un(s1) * t0 + (s0 * Un(t1) + p) \in Acc
<1> DEFINE su == Un(s1)
           tu == Un(t1)
           P == su * tu
           p == P \div LaneMod
<1>1. /\ LaneMod \in Nat /\ LaneMod >= 4 /\ Half \in Nat /\ Half >= 2 /\ LaneMod = 2 * Half
      /\ s0 \in -Half .. Half /\ t0 \in -Half .. Half
      /\ su \in -LaneMod .. LaneMod /\ tu \in -LaneMod .. LaneMod /\ su >= 0 /\ tu >= 0
  BY Operands, LaneSize DEF Word, Lane
<1>2. /\ P \in -(LaneMod * LaneMod) .. LaneMod * LaneMod
      /\ s0 * tu \in -(Half * LaneMod) .. Half * LaneMod
      /\ t0 * su \in -(Half * LaneMod) .. Half * LaneMod
      /\ su * t0 = t0 * su
  <2> HIDE DEF su, tu
  <2> QED
    BY <1>1, MulBound
<1>3. P \in Nat
  <2> HIDE DEF su, tu
  <2>1. su \in Nat /\ tu \in Nat
    BY <1>1
  <2> QED
    BY ONLY <2>1
<1> HIDE DEF su, tu, P
<1>4. p \in 0 .. LaneMod
  <2>1. p \in Nat /\ P = LaneMod * p + (P % LaneMod) /\ P % LaneMod \in 0 .. LaneMod - 1
    BY <1>1, <1>3, DivMod, DivOfNat
  <2> HIDE DEF p
  <2>2. (p - LaneMod >= 1 => LaneMod * (p - LaneMod) >= LaneMod)
        /\ LaneMod * (p - LaneMod) = LaneMod * p - LaneMod * LaneMod
    BY <1>1, <2>1, MulStep, Distribute
  <2>3. LaneMod * p \in Int /\ LaneMod * LaneMod \in Int
    BY <1>1, <2>1
  <2> QED
    BY <1>1, <1>2, <2>1, <2>2, <2>3
<1>5. AccHalf \in Nat /\ AccHalf > LaneMod + 2 * (Half * LaneMod) /\ Half * LaneMod \in Nat
  <2> DEFINE S == Half * LaneMod
  <2>1. S \in Nat /\ AccHalf = LaneMod * S /\ S >= LaneMod /\ AccHalf \in Nat
    BY <1>1, AccSize, Product2
  <2> HIDE DEF S
  <2>2. LaneMod * S = 4 * S + (LaneMod - 4) * S
    BY <1>1, <2>1
  <2>3. (LaneMod - 4) * S \in Nat
    <3>1. LaneMod - 4 \in Nat
      BY <1>1
    <3> QED
      BY <2>1, <3>1
  <2> QED
    BY <1>1, <2>1, <2>2, <2>3 DEF S
<1> HIDE DEF p
<1> QED
  BY <1>1, <1>2, <1>4, <1>5 DEF Acc, su, tu, P, p

\* The whole product, above the bits that vmudl drops, is one too.
LEMMA WholeProduct ==
    ASSUME NEW s0 \in Lane, NEW s1 \in Lane, NEW t0 \in Lane, NEW t1 \in Lane
    PROVE  LET p == (Un(s1) * Un(t1)) \div LaneMod
               a == s0 * t0 * LaneMod + (Un(s1) * t0 + (s0 * Un(t1) + p))
           IN  a \in Acc /\ (Wide(s0, s1) * Wide(t0, t1)) \div LaneMod = a
<1> DEFINE su == Un(s1)
           tu == Un(t1)
           P == su * tu
           p == P \div LaneMod
           m == P % LaneMod
           a == s0 * t0 * LaneMod + (su * t0 + (s0 * tu + p))
           s == s0 * LaneMod + su
           t == t0 * LaneMod + tu
           S == Half * LaneMod
           G == Half * S
<1>1. /\ LaneMod \in Nat /\ LaneMod > 0 /\ Half \in Nat /\ LaneMod = 2 * Half
      /\ s0 \in Int /\ s0 >= -Half /\ s0 <= Half - 1
      /\ t0 \in Int /\ t0 >= -Half /\ t0 <= Half - 1
      /\ su \in 0 .. LaneMod - 1 /\ tu \in 0 .. LaneMod - 1
  BY Operands, LaneSize DEF Word, Lane
<1> HIDE DEF su, tu
<1>2. P \in Int /\ p \in Int /\ m \in 0 .. LaneMod - 1 /\ P = LaneMod * p + m
  <2>1. P \in Int
    BY <1>1
  <2> HIDE DEF P
  <2> QED
    BY <1>1, <2>1, DivMod
<1> HIDE DEF p, m
<1>3. s * t = LaneMod * a + m
  <2>1. LaneMod * a = LaneMod * (s0 * t0 * LaneMod + (su * t0 + s0 * tu)) + LaneMod * p
    <3>1. a = (s0 * t0 * LaneMod + (su * t0 + s0 * tu)) + p
          /\ s0 * t0 * LaneMod + (su * t0 + s0 * tu) \in Int
      BY <1>1, <1>2
    <3> QED
      BY <1>1, <1>2, <3>1, Distribute
  <2>2. s * t = LaneMod * (s0 * t0 * LaneMod + (su * t0 + s0 * tu)) + su * tu
    BY <1>1
  <2>3. LaneMod * (s0 * t0 * LaneMod + (su * t0 + s0 * tu)) \in Int /\ LaneMod * p \in Int
    BY <1>1, <1>2
  <2> HIDE DEF a, s, t
  <2> QED
    BY <1>2, <2>1, <2>2, <2>3
<1>4. a \in Int
  BY <1>1, <1>2
<1>5. (s * t) \div LaneMod = a
  <2> HIDE DEF a, s, t
  <2> QED
    BY <1>1, <1>2, <1>3, <1>4, DivModUnique
<1>6. s \in -S .. S /\ t \in -S .. S /\ S \in Nat
  <2>1. ASSUME NEW x \in Int, x >= -Half, x <= Half - 1, NEW y \in 0 .. LaneMod - 1
        PROVE  x * LaneMod + y \in -S .. S
    <3>1. x * LaneMod \in -S .. S - LaneMod
      <4>1. x + Half \in Nat /\ (Half - 1) - x \in Nat
        BY <1>1, <2>1
      <4>2. (x + Half) * LaneMod \in Nat /\ ((Half - 1) - x) * LaneMod \in Nat
        BY <1>1, <4>1
      <4>3. (x + Half) * LaneMod = x * LaneMod + Half * LaneMod
            /\ ((Half - 1) - x) * LaneMod = Half * LaneMod - LaneMod - x * LaneMod
        BY <1>1, <2>1
      <4>4. x * LaneMod \in Int /\ Half * LaneMod \in Int
        BY <1>1, <2>1
      <4> QED
        BY <1>1, <4>2, <4>3, <4>4
    <3>2. S \in Int /\ x * LaneMod \in Int
      BY <1>1, <2>1
    <3> HIDE DEF S
    <3> QED
      BY <1>1, <2>1, <3>1, <3>2
  <2>2. S \in Nat
    BY <1>1
  <2> QED
    BY <1>1, <2>1, <2>2
<1>7. S * S = LaneMod * G /\ AccHalf = 2 * G /\ G \in Nat
  <2>1. AccHalf = LaneMod * S
    BY AccSize
  <2> QED
    BY <1>1, <2>1
<1>8. s * t \in -(LaneMod * G) .. LaneMod * G
  <2> HIDE DEF s, t, S, G
  <2> QED
    BY <1>6, <1>7, MulBound
<1>9. a >= -G /\ a <= G
  <2> HIDE DEF a, s, t, G
  <2>1. LaneMod * a \in Int /\ LaneMod * G \in Int
    BY <1>1, <1>4, <1>7
  <2>2. (a - G >= 1 => LaneMod * (a - G) >= LaneMod)
        /\ LaneMod * (a - G) = LaneMod * a - LaneMod * G
    BY <1>1, <1>4, <1>7, MulStep, Distribute
  <2>3. (a + G <= -1 => LaneMod * (a + G) <= -LaneMod)
        /\ LaneMod * (a + G) = LaneMod * a + LaneMod * G
    BY <1>1, <1>4, <1>7, MulStep, Distribute
  <2> QED
    BY <1>1, <1>2, <1>3, <1>4, <1>7, <1>8, <2>1, <2>2, <2>3
<1>10. a \in Acc
  <2> HIDE DEF a, G
  <2>1. G > 0
    BY <1>7, AccSize
  <2> QED
    BY <1>4, <1>7, <1>9, <2>1 DEF Acc
<1>11. Wide(s0, s1) * Wide(t0, t1) = s * t
  BY DEF Wide, su, tu
<1> QED
  BY <1>5, <1>10, <1>11 DEF su, tu, p

\* What one multiplication leaves in the accumulator.
LEMMA Accumulates ==
    ASSUME NEW fn \in Products, NEW c \in Cell, NEW s \in Lane, NEW t \in Lane
    PROVE  LET op == LaneOp(fn, 0, c, s, t)
           IN  /\ op.cell \in Cell /\ op.cell.acc = AccAfter(fn, c.acc, s, t)
               /\ fn \notin {"vmudl", "vmudn", "vmadn"} => op.res = Mid(op.cell.acc)
<1> DEFINE op == LaneOp(fn, 0, c, s, t)
           a == AccAfter(fn, c.acc, s, t)
           d == [c EXCEPT !.acc = a]
<1>1. op = Multiply(fn, c, s, t)
  BY DEF LaneOp, Products, FromZero, Onto, Selections
<1>2. op.cell \in Cell
  <2>1. fn \in VecFns /\ 0 \in 0 .. 15
    BY DEF VecFns
  <2> QED
    BY <2>1, LaneOpType
<1>3. op = [res |-> IF fn \in {"vmudl", "vmudn", "vmadn"} THEN ClampLow(a) ELSE Mid(a),
            cell |-> d]
  BY <1>1 DEF Multiply
<1>4. d.acc = a
  <2> HIDE DEF a
  <2> QED
    BY DEF Cell
<1> HIDE DEF op, a, d
<1>5. op.cell.acc = a /\ (fn \notin {"vmudl", "vmudn", "vmadn"} => op.res = Mid(a))
  BY <1>3, <1>4
<1> QED
  BY <1>2, <1>5 DEF op, a

LEMMA ProductLane ==
    ASSUME NEW c \in Cell, NEW s0 \in Lane, NEW s1 \in Lane, NEW t0 \in Lane, NEW t1 \in Lane
    PROVE  LET lowLow == LaneOp("vmudl", 0, c, s1, t1)
               highLow == LaneOp("vmadm", 0, lowLow.cell, s0, t1)
               lowHigh == LaneOp("vmadn", 0, highLow.cell, s1, t0)
               highHigh == LaneOp("vmadh", 0, lowHigh.cell, s0, t0)
               product == Wide(s0, s1) * Wide(t0, t1)
           IN  /\ highHigh.cell.acc = product \div LaneMod
               /\ highHigh.res = Clamp(product \div (LaneMod * LaneMod))
<1> DEFINE p == (Un(s1) * Un(t1)) \div LaneMod
           a2 == s0 * Un(t1) + p
           a3 == Un(s1) * t0 + a2
           a4 == s0 * t0 * LaneMod + a3
           lowLow == LaneOp("vmudl", 0, c, s1, t1)
           highLow == LaneOp("vmadm", 0, lowLow.cell, s0, t1)
           lowHigh == LaneOp("vmadn", 0, highLow.cell, s1, t0)
           highHigh == LaneOp("vmadh", 0, lowHigh.cell, s0, t0)
           product == Wide(s0, s1) * Wide(t0, t1)
<1>1. \A x \in Acc : Sext48(x) = x /\ x \in Int
  BY AccSize, SmallFits, WrapFacts DEF Sext48, Acc
<1>2. p \in Acc /\ a2 \in Acc /\ a3 \in Acc
  BY PartialSums
<1>3. a4 \in Acc /\ product \div LaneMod = a4
  BY WholeProduct
<1>4. {"vmudl", "vmadm", "vmadn", "vmadh"} \subseteq Products
  BY DEF Products, FromZero, Onto
<1>5. lowLow.cell \in Cell /\ lowLow.cell.acc = p
  <2>1. lowLow.cell \in Cell /\ lowLow.cell.acc = AccAfter("vmudl", c.acc, s1, t1)
    BY <1>4, Accumulates
  <2>2. AccAfter("vmudl", c.acc, s1, t1) = Sext48(p + 0)
    BY DEF AccAfter, Product, Onto
  <2> HIDE DEF p, lowLow
  <2> QED
    BY <1>1, <1>2, <2>1, <2>2
<1>6. highLow.cell \in Cell /\ highLow.cell.acc = a2
  <2> HIDE DEF lowLow
  <2>1. highLow.cell \in Cell /\ highLow.cell.acc = AccAfter("vmadm", lowLow.cell.acc, s0, t1)
    BY <1>4, <1>5, Accumulates
  <2>2. AccAfter("vmadm", p, s0, t1) = Sext48(a2)
    BY DEF AccAfter, Product, Onto
  <2> HIDE DEF p, a2, highLow
  <2> QED
    BY <1>1, <1>2, <1>5, <2>1, <2>2
<1>7. lowHigh.cell \in Cell /\ lowHigh.cell.acc = a3
  <2> HIDE DEF highLow
  <2>1. lowHigh.cell \in Cell /\ lowHigh.cell.acc = AccAfter("vmadn", highLow.cell.acc, s1, t0)
    BY <1>4, <1>6, Accumulates
  <2> HIDE DEF p, a2
  <2>2. AccAfter("vmadn", a2, s1, t0) = Sext48(a3)
    BY DEF AccAfter, Product, Onto
  <2> HIDE DEF a3, lowHigh
  <2> QED
    BY <1>1, <1>2, <1>6, <2>1, <2>2
<1>8. highHigh.cell.acc = a4 /\ highHigh.res = Mid(a4)
  <2> HIDE DEF lowHigh
  <2>1. /\ highHigh.cell.acc = AccAfter("vmadh", lowHigh.cell.acc, s0, t0)
        /\ highHigh.res = Mid(highHigh.cell.acc)
    <3>1. "vmadh" \in Products /\ "vmadh" \notin {"vmudl", "vmudn", "vmadn"}
      BY <1>4
    <3> DEFINE fn == "vmadh"
    <3> HIDE DEF fn
    <3>2. /\ LaneOp(fn, 0, lowHigh.cell, s0, t0).cell.acc = AccAfter(fn, lowHigh.cell.acc, s0, t0)
          /\ LaneOp(fn, 0, lowHigh.cell, s0, t0).res
               = Mid(LaneOp(fn, 0, lowHigh.cell, s0, t0).cell.acc)
      <4>1. fn \in Products /\ fn \notin {"vmudl", "vmudn", "vmadn"}
        BY <3>1 DEF fn
      <4> QED
        BY <1>7, <4>1, Accumulates
    <3> QED
      BY <3>2 DEF fn
  <2> HIDE DEF a3
  <2>2. AccAfter("vmadh", a3, s0, t0) = Sext48(a4)
    BY DEF AccAfter, Product, Onto
  <2> HIDE DEF a4, highHigh
  <2> QED
    BY <1>1, <1>3, <1>7, <2>1, <2>2
<1>9. product \in Int
  <2>1. \A x, y \in Lane : Wide(x, y) \in Int
    BY Operands, LaneSize DEF Wide
  <2>2. Wide(s0, s1) \in Int /\ Wide(t0, t1) \in Int
    BY <2>1
  <2> QED
    BY ONLY <2>2
<1> HIDE DEF a4, highHigh, product
<1>10. Mid(a4) = Clamp(product \div (LaneMod * LaneMod))
  BY <1>3, <1>9, DivDiv DEF Mid
<1> QED
  BY <1>3, <1>8, <1>10 DEF highHigh, product

\* The fixed-point product of microcode, four partial products one onto another, is
\* exact, whatever the width of a lane: no partial sum leaves the accumulator
\* (rsp.cc:246-279).
THEOREM FourProductsMultiply ==
    ASSUME NumVecs >= 4
    PROVE  Spec => []ProductChain
<1>1. TypeOK => ProductChain
  <2> SUFFICES ASSUME TypeOK, NEW k \in Rsp!Lanes
               PROVE  LET lowLow == Then("vmudl", UnitCells[k], 1, 3, k)
                          highLow == Then("vmadm", lowLow.cell, 0, 3, k)
                          lowHigh == Then("vmadn", highLow.cell, 1, 2, k)
                          highHigh == Then("vmadh", lowHigh.cell, 0, 2, k)
                          product == First(k) * Second(k)
                      IN  /\ highHigh.cell.acc = product \div LaneMod
                          /\ highHigh.res = Clamp(product \div (LaneMod * LaneMod))
    BY DEF ProductChain
  <2>1. UnitCells[k] \in Cell /\ UnitVecs[0][k] \in Lane /\ UnitVecs[1][k] \in Lane
        /\ UnitVecs[2][k] \in Lane /\ UnitVecs[3][k] \in Lane
    BY UnitType, VecAssumption DEF VecRegs, Rsp!Vecs
  <2> DEFINE s0 == UnitVecs[0][k]
             s1 == UnitVecs[1][k]
             t0 == UnitVecs[2][k]
             t1 == UnitVecs[3][k]
             c == UnitCells[k]
  <2>2. LET lowLow == LaneOp("vmudl", 0, c, s1, t1)
            highLow == LaneOp("vmadm", 0, lowLow.cell, s0, t1)
            lowHigh == LaneOp("vmadn", 0, highLow.cell, s1, t0)
            highHigh == LaneOp("vmadh", 0, lowHigh.cell, s0, t0)
            product == Wide(s0, s1) * Wide(t0, t1)
        IN  /\ highHigh.cell.acc = product \div LaneMod
            /\ highHigh.res = Clamp(product \div (LaneMod * LaneMod))
    <3>1. c \in Cell /\ s0 \in Lane /\ s1 \in Lane /\ t0 \in Lane /\ t1 \in Lane
      BY <2>1
    <3> HIDE DEF c, s0, s1, t0, t1
    <3> QED
      BY <3>1, ProductLane
  <2> QED
    BY <2>2, Zenon DEF Then, First, Second
<1> QED
  BY <1>1, VecTypeCorrect, PTL

-----------------------------------------------------------------------------
(* The flag registers as numbers.                                          *)

\* The digit d is what comes first after dividing x by m, and y what is left.
Halves(m, n, x, d, y) ==
    /\ m \in Nat /\ m > 0 /\ n = 2 * m
    /\ x \in Int /\ d \in 0 .. 1 /\ y \in Int
    /\ x \div m = d + 2 * y

\* The lowest binary digit of a quotient, and the quotient by twice as much.
LEMMA Halved ==
    ASSUME NEW m, NEW n, NEW x, NEW d, NEW y, Halves(m, n, x, d, y)
    PROVE  (x \div m) % 2 = d /\ x \div n = y
<1> m \in Nat /\ m > 0 /\ x \in Int /\ d \in 0 .. 1 /\ y \in Int /\ n = 2 * m
    /\ x \div m = d + 2 * y
  BY DEF Halves
<1>1. x % m \in 0 .. m - 1 /\ x = m * (x \div m) + (x % m)
  BY DivMod
<1>2. m * (d + 2 * y) = (2 * m) * y + m * d
  BY Z3
<1>3. m * d \in Int /\ m * d + (x % m) \in 0 .. 2 * m - 1
  <2>1. CASE d = 0
    BY <1>1, <2>1
  <2>2. CASE d = 1
    BY <1>1, <2>2
  <2> QED
    BY <2>1, <2>2
<1>4. (2 * m) * y \in Int
  BY Z3
<1>5. x = (2 * m) * y + (m * d + (x % m))
  BY <1>1, <1>2, <1>3, <1>4
<1>6. ((2 * m) * y + (m * d + (x % m))) \div (2 * m) = y
  <2> DEFINE D == 2 * m
             s == m * d + (x % m)
  <2>1. D \in Nat /\ D > 0 /\ s \in 0 .. D - 1
    BY <1>3
  <2> HIDE DEF D, s
  <2> QED
    BY ONLY <2>1, DivModUnique, y \in Int DEF D, s
<1>7. (d + 2 * y) % 2 = d
  OBVIOUS
<1> QED
  BY <1>5, <1>6, <1>7

\* The number of sixteen bits with the digits d and, in the upper byte, g.
Digits(d, g) ==
    1 * (d[0] + 256 * g[0]) + 2 * (d[1] + 256 * g[1]) + 4 * (d[2] + 256 * g[2])
      + 8 * (d[3] + 256 * g[3]) + 16 * (d[4] + 256 * g[4]) + 32 * (d[5] + 256 * g[5])
      + 64 * (d[6] + 256 * g[6]) + 128 * (d[7] + 256 * g[7])

LEMMA BinaryDigits ==
    ASSUME NEW d \in [0 .. 7 -> 0 .. 1], NEW g \in [0 .. 7 -> 0 .. 1]
    PROVE  LET x == Digits(d, g) IN
           /\ x \in Nat /\ x <= 65535
           /\ (x \div 1) % 2 = d[0] /\ (x \div 2) % 2 = d[1]
           /\ (x \div 4) % 2 = d[2] /\ (x \div 8) % 2 = d[3]
           /\ (x \div 16) % 2 = d[4] /\ (x \div 32) % 2 = d[5]
           /\ (x \div 64) % 2 = d[6] /\ (x \div 128) % 2 = d[7]
           /\ (x \div 256) % 2 = g[0] /\ (x \div 512) % 2 = g[1]
           /\ (x \div 1024) % 2 = g[2] /\ (x \div 2048) % 2 = g[3]
           /\ (x \div 4096) % 2 = g[4] /\ (x \div 8192) % 2 = g[5]
           /\ (x \div 16384) % 2 = g[6] /\ (x \div 32768) % 2 = g[7]
<1> DEFINE x == Digits(d, g)
           d0 == d[0]   d1 == d[1]   d2 == d[2]   d3 == d[3]
           d4 == d[4]   d5 == d[5]   d6 == d[6]   d7 == d[7]
           d8 == g[0]   d9 == g[1]   d10 == g[2]   d11 == g[3]
           d12 == g[4]   d13 == g[5]   d14 == g[6]   d15 == g[7]
<1>a. /\ d0 \in 0 .. 1 /\ d1 \in 0 .. 1 /\ d2 \in 0 .. 1 /\ d3 \in 0 .. 1
      /\ d4 \in 0 .. 1 /\ d5 \in 0 .. 1 /\ d6 \in 0 .. 1 /\ d7 \in 0 .. 1
      /\ d8 \in 0 .. 1 /\ d9 \in 0 .. 1 /\ d10 \in 0 .. 1 /\ d11 \in 0 .. 1
      /\ d12 \in 0 .. 1 /\ d13 \in 0 .. 1 /\ d14 \in 0 .. 1 /\ d15 \in 0 .. 1
  OBVIOUS
<1>b. x = 1 * (d0 + 256 * d8) + 2 * (d1 + 256 * d9) + 4 * (d2 + 256 * d10)
            + 8 * (d3 + 256 * d11) + 16 * (d4 + 256 * d12) + 32 * (d5 + 256 * d13)
            + 64 * (d6 + 256 * d14) + 128 * (d7 + 256 * d15)
  BY DEF Digits
<1> HIDE DEF x, d0, d1, d2, d3, d4, d5, d6, d7,
             d8, d9, d10, d11, d12, d13, d14, d15
<1>c. x \in Int
  BY ONLY <1>a, <1>b
<1> DEFINE y15 == d15 + 2 * 0
           y14 == d14 + 2 * y15
           y13 == d13 + 2 * y14
           y12 == d12 + 2 * y13
           y11 == d11 + 2 * y12
           y10 == d10 + 2 * y11
           y9 == d9 + 2 * y10
           y8 == d8 + 2 * y9
           y7 == d7 + 2 * y8
           y6 == d6 + 2 * y7
           y5 == d5 + 2 * y6
           y4 == d4 + 2 * y5
           y3 == d3 + 2 * y4
           y2 == d2 + 2 * y3
           y1 == d1 + 2 * y2
           y0 == d0 + 2 * y1
<1>1. y15 \in Nat /\ y15 <= 1 /\ y15 = d15 + 2 * 0
  BY ONLY <1>a
<1> HIDE DEF y15
<1>2. y14 \in Nat /\ y14 <= 3 /\ y14 = d14 + 2 * y15
  BY ONLY <1>1, <1>a
<1> HIDE DEF y14
<1>3. y13 \in Nat /\ y13 <= 7 /\ y13 = d13 + 2 * y14
  BY ONLY <1>2, <1>a
<1> HIDE DEF y13
<1>4. y12 \in Nat /\ y12 <= 15 /\ y12 = d12 + 2 * y13
  BY ONLY <1>3, <1>a
<1> HIDE DEF y12
<1>5. y11 \in Nat /\ y11 <= 31 /\ y11 = d11 + 2 * y12
  BY ONLY <1>4, <1>a
<1> HIDE DEF y11
<1>6. y10 \in Nat /\ y10 <= 63 /\ y10 = d10 + 2 * y11
  BY ONLY <1>5, <1>a
<1> HIDE DEF y10
<1>7. y9 \in Nat /\ y9 <= 127 /\ y9 = d9 + 2 * y10
  BY ONLY <1>6, <1>a
<1> HIDE DEF y9
<1>8. y8 \in Nat /\ y8 <= 255 /\ y8 = d8 + 2 * y9
  BY ONLY <1>7, <1>a
<1> HIDE DEF y8
<1>9. y7 \in Nat /\ y7 <= 511 /\ y7 = d7 + 2 * y8
  BY ONLY <1>8, <1>a
<1> HIDE DEF y7
<1>10. y6 \in Nat /\ y6 <= 1023 /\ y6 = d6 + 2 * y7
  BY ONLY <1>9, <1>a
<1> HIDE DEF y6
<1>11. y5 \in Nat /\ y5 <= 2047 /\ y5 = d5 + 2 * y6
  BY ONLY <1>10, <1>a
<1> HIDE DEF y5
<1>12. y4 \in Nat /\ y4 <= 4095 /\ y4 = d4 + 2 * y5
  BY ONLY <1>11, <1>a
<1> HIDE DEF y4
<1>13. y3 \in Nat /\ y3 <= 8191 /\ y3 = d3 + 2 * y4
  BY ONLY <1>12, <1>a
<1> HIDE DEF y3
<1>14. y2 \in Nat /\ y2 <= 16383 /\ y2 = d2 + 2 * y3
  BY ONLY <1>13, <1>a
<1> HIDE DEF y2
<1>15. y1 \in Nat /\ y1 <= 32767 /\ y1 = d1 + 2 * y2
  BY ONLY <1>14, <1>a
<1> HIDE DEF y1
<1>16. y0 \in Nat /\ y0 <= 65535 /\ y0 = d0 + 2 * y1
  BY ONLY <1>15, <1>a
<1> HIDE DEF y0
<1>17. x = y0
  BY ONLY <1>a, <1>b, <1>1, <1>2, <1>3, <1>4, <1>5, <1>6, <1>7, <1>8, <1>9, <1>10, <1>11,
          <1>12, <1>13, <1>14, <1>15, <1>16
<1>18. x \div 1 = y0
  BY ONLY <1>17, <1>16
<1>19. (x \div 1) % 2 = d0 /\ x \div 2 = y1
  <2>1. Halves(1, 2, x, d0, y1)
    BY ONLY <1>18, <1>16, <1>15, <1>a, <1>c DEF Halves
  <2> QED
    BY ONLY <2>1, Halved
<1>20. (x \div 2) % 2 = d1 /\ x \div 4 = y2
  <2>1. Halves(2, 4, x, d1, y2)
    BY ONLY <1>19, <1>15, <1>14, <1>a, <1>c DEF Halves
  <2> QED
    BY ONLY <2>1, Halved
<1>21. (x \div 4) % 2 = d2 /\ x \div 8 = y3
  <2>1. Halves(4, 8, x, d2, y3)
    BY ONLY <1>20, <1>14, <1>13, <1>a, <1>c DEF Halves
  <2> QED
    BY ONLY <2>1, Halved
<1>22. (x \div 8) % 2 = d3 /\ x \div 16 = y4
  <2>1. Halves(8, 16, x, d3, y4)
    BY ONLY <1>21, <1>13, <1>12, <1>a, <1>c DEF Halves
  <2> QED
    BY ONLY <2>1, Halved
<1>23. (x \div 16) % 2 = d4 /\ x \div 32 = y5
  <2>1. Halves(16, 32, x, d4, y5)
    BY ONLY <1>22, <1>12, <1>11, <1>a, <1>c DEF Halves
  <2> QED
    BY ONLY <2>1, Halved
<1>24. (x \div 32) % 2 = d5 /\ x \div 64 = y6
  <2>1. Halves(32, 64, x, d5, y6)
    BY ONLY <1>23, <1>11, <1>10, <1>a, <1>c DEF Halves
  <2> QED
    BY ONLY <2>1, Halved
<1>25. (x \div 64) % 2 = d6 /\ x \div 128 = y7
  <2>1. Halves(64, 128, x, d6, y7)
    BY ONLY <1>24, <1>10, <1>9, <1>a, <1>c DEF Halves
  <2> QED
    BY ONLY <2>1, Halved
<1>26. (x \div 128) % 2 = d7 /\ x \div 256 = y8
  <2>1. Halves(128, 256, x, d7, y8)
    BY ONLY <1>25, <1>9, <1>8, <1>a, <1>c DEF Halves
  <2> QED
    BY ONLY <2>1, Halved
<1>27. (x \div 256) % 2 = d8 /\ x \div 512 = y9
  <2>1. Halves(256, 512, x, d8, y9)
    BY ONLY <1>26, <1>8, <1>7, <1>a, <1>c DEF Halves
  <2> QED
    BY ONLY <2>1, Halved
<1>28. (x \div 512) % 2 = d9 /\ x \div 1024 = y10
  <2>1. Halves(512, 1024, x, d9, y10)
    BY ONLY <1>27, <1>7, <1>6, <1>a, <1>c DEF Halves
  <2> QED
    BY ONLY <2>1, Halved
<1>29. (x \div 1024) % 2 = d10 /\ x \div 2048 = y11
  <2>1. Halves(1024, 2048, x, d10, y11)
    BY ONLY <1>28, <1>6, <1>5, <1>a, <1>c DEF Halves
  <2> QED
    BY ONLY <2>1, Halved
<1>30. (x \div 2048) % 2 = d11 /\ x \div 4096 = y12
  <2>1. Halves(2048, 4096, x, d11, y12)
    BY ONLY <1>29, <1>5, <1>4, <1>a, <1>c DEF Halves
  <2> QED
    BY ONLY <2>1, Halved
<1>31. (x \div 4096) % 2 = d12 /\ x \div 8192 = y13
  <2>1. Halves(4096, 8192, x, d12, y13)
    BY ONLY <1>30, <1>4, <1>3, <1>a, <1>c DEF Halves
  <2> QED
    BY ONLY <2>1, Halved
<1>32. (x \div 8192) % 2 = d13 /\ x \div 16384 = y14
  <2>1. Halves(8192, 16384, x, d13, y14)
    BY ONLY <1>31, <1>3, <1>2, <1>a, <1>c DEF Halves
  <2> QED
    BY ONLY <2>1, Halved
<1>33. (x \div 16384) % 2 = d14 /\ x \div 32768 = y15
  <2>1. Halves(16384, 32768, x, d14, y15)
    BY ONLY <1>32, <1>2, <1>1, <1>a, <1>c DEF Halves
  <2> QED
    BY ONLY <2>1, Halved
<1>34. (x \div 32768) % 2 = d15 /\ x \div 65536 = 0
  <2>1. Halves(32768, 65536, x, d15, 0)
    BY ONLY <1>33, <1>1, <1>a, <1>c DEF Halves
  <2> QED
    BY ONLY <2>1, Halved
<1>35. x \in Nat /\ x <= 65535
  BY ONLY <1>16, <1>17
<1> QED
  BY ONLY <1>19, <1>20, <1>21, <1>22, <1>23, <1>24, <1>25, <1>26, <1>27, <1>28, <1>29,
          <1>30, <1>31, <1>32, <1>33, <1>34, <1>35, SMT
          DEF x, d0, d1, d2, d3, d4, d5, d6, d7,
              d8, d9, d10, d11, d12, d13, d14, d15

\* A flag register's number has the flags for its digits.
LEMMA VFlagsDigits ==
    ASSUME NEW which, NEW c
    PROVE  LET x == Rsp!GetVFlags(which, c)
               lo(i) == Bit(Rsp!LowFlag(which, c[i]))
               hi(i) == Bit(Rsp!HighFlag(which, c[i]))
           IN  /\ x \in Nat /\ x <= 65535
               /\ \A i \in 0 .. 7 : /\ (x \div Rsp!BitOf(i)) % 2 = lo(i)
                                    /\ (x \div (256 * Rsp!BitOf(i))) % 2 = hi(i)
<1> DEFINE x == Rsp!GetVFlags(which, c)
           lo(i) == Bit(Rsp!LowFlag(which, c[i]))
           hi(i) == Bit(Rsp!HighFlag(which, c[i]))
           f == [i \in Rsp!Lanes |-> Rsp!BitOf(i) * (lo(i) + 256 * hi(i))]
           d == [i \in 0 .. 7 |-> lo(i)]
           g == [i \in 0 .. 7 |-> hi(i)]
<1>1. \A i \in 0 .. 7 : d[i] = lo(i) /\ g[i] = hi(i) /\ lo(i) \in 0 .. 1 /\ hi(i) \in 0 .. 1
  BY DEF Bit
<1>2. x = Rsp!Sum8(f)
  <2>1. \A b : Rsp!Bit(b) = Bit(b)
    BY DEF Bit, Rsp!Bit
  <2> QED
    BY <2>1 DEF Rsp!GetVFlags
<1>3. \A i \in 0 .. 7 : f[i] = Rsp!BitOf(i) * (d[i] + 256 * g[i])
  <2> HIDE DEF lo, hi
  <2> QED
    BY <1>1 DEF Rsp!Lanes
<1> HIDE DEF x, lo, hi, f, d, g
<1>4. /\ Rsp!BitOf(0) = 1 /\ Rsp!BitOf(1) = 2 /\ Rsp!BitOf(2) = 4 /\ Rsp!BitOf(3) = 8
      /\ Rsp!BitOf(4) = 16 /\ Rsp!BitOf(5) = 32 /\ Rsp!BitOf(6) = 64 /\ Rsp!BitOf(7) = 128
  BY DEF Rsp!BitOf
<1>5. d \in [0 .. 7 -> 0 .. 1] /\ g \in [0 .. 7 -> 0 .. 1]
  BY <1>1 DEF d, g
<1>6. x = Digits(d, g)
  <2>1. x = f[0] + f[1] + f[2] + f[3] + f[4] + f[5] + f[6] + f[7]
    BY <1>2 DEF Rsp!Sum8
  <2>2. /\ f[0] = 1 * (d[0] + 256 * g[0]) /\ f[1] = 2 * (d[1] + 256 * g[1])
        /\ f[2] = 4 * (d[2] + 256 * g[2]) /\ f[3] = 8 * (d[3] + 256 * g[3])
        /\ f[4] = 16 * (d[4] + 256 * g[4]) /\ f[5] = 32 * (d[5] + 256 * g[5])
        /\ f[6] = 64 * (d[6] + 256 * g[6]) /\ f[7] = 128 * (d[7] + 256 * g[7])
    BY ONLY <1>3, <1>4
  <2> QED
    BY ONLY <2>1, <2>2 DEF Digits
<1>9. /\ x \in Nat /\ x <= 65535
      /\ (x \div 1) % 2 = d[0] /\ (x \div 2) % 2 = d[1]
      /\ (x \div 4) % 2 = d[2] /\ (x \div 8) % 2 = d[3]
      /\ (x \div 16) % 2 = d[4] /\ (x \div 32) % 2 = d[5]
      /\ (x \div 64) % 2 = d[6] /\ (x \div 128) % 2 = d[7]
      /\ (x \div 256) % 2 = g[0] /\ (x \div 512) % 2 = g[1]
      /\ (x \div 1024) % 2 = g[2] /\ (x \div 2048) % 2 = g[3]
      /\ (x \div 4096) % 2 = g[4] /\ (x \div 8192) % 2 = g[5]
      /\ (x \div 16384) % 2 = g[6] /\ (x \div 32768) % 2 = g[7]
  BY ONLY <1>5, <1>6, BinaryDigits
<1>10. ASSUME NEW i \in 0 .. 7
       PROVE  (x \div Rsp!BitOf(i)) % 2 = d[i] /\ (x \div (256 * Rsp!BitOf(i))) % 2 = g[i]
  <2>1. i = 0 \/ i = 1 \/ i = 2 \/ i = 3 \/ i = 4 \/ i = 5 \/ i = 6 \/ i = 7
    OBVIOUS
  <2>2. /\ 256 * 1 = 256 /\ 256 * 2 = 512 /\ 256 * 4 = 1024 /\ 256 * 8 = 2048
        /\ 256 * 16 = 4096 /\ 256 * 32 = 8192 /\ 256 * 64 = 16384 /\ 256 * 128 = 32768
    OBVIOUS
  <2> QED
    BY ONLY <1>4, <1>9, <2>1, <2>2
<1> QED
  BY ONLY <1>1, <1>9, <1>10 DEF x, lo, hi

\* A pattern saved with its sign in a register that holds whole patterns is the
\* register's low end.
LEMMA SavedBack ==
    ASSUME NEW h \in Nat, h > 0, NEW G \in Nat, G > 0, G % (2 * h) = 0,
           NEW x \in Nat, x < 2 * h
    PROVE  (Wrap(x, h) % G) % (2 * h) = x
<1> DEFINE D == 2 * h
           K == G \div D
           w == Wrap(x, h)
<1>1. D \in Nat /\ D > 0 /\ x \in 0 .. D - 1
  OBVIOUS
<1>2. w \in Int /\ \E k \in Int : x = w + D * k
  <2>1. Wrap(x, h) \in -h .. h - 1 /\ \E k \in Int : x = Wrap(x, h) + 2 * h * k
    BY ONLY h \in Nat, h > 0, x \in Int, WrapFacts
  <2>2. Wrap(x, h) \in Int
    BY ONLY <2>1, h \in Nat
  <2> QED
    BY ONLY <2>1, <2>2, Zenon
<1>3. PICK k \in Int : x = w + D * k
  BY <1>2
<1>4. G % D = 0
  OBVIOUS
<1> HIDE DEF D, K, w
<1>5. K \in Int /\ G = D * K
  BY ONLY <1>1, <1>4, DivMod, G \in Nat DEF K
<1>6. K > 0
  BY ONLY <1>1, <1>5, G > 0, MulStep
<1>7. K \in Nat /\ D * K > 0 /\ D * K \in Nat
  BY ONLY <1>5, <1>6, G > 0, G \in Nat
<1>8. (w % G) % D = w % D
  BY ONLY <1>1, <1>2, <1>5, <1>6, <1>7, ModMod
<1>9. (w + D * k) % D = w % D
  BY ONLY <1>1, <1>2, ModShift, k \in Int
<1>10. x % D = x
  <2>1. (D * 0 + x) % D = x /\ D * 0 + x = x
    BY ONLY <1>1, DivModUnique
  <2> QED
    BY ONLY <2>1
<1>11. (w % G) % D = x
  BY ONLY <1>3, <1>8, <1>9, <1>10
<1> QED
  BY ONLY <1>11 DEF D, w

\* Restoring what was saved changes no flag.
LEMMA FlagsRestored ==
    ASSUME NEW which \in 0 .. 2, NEW c \in [Rsp!Lanes -> Cell], NEW x,
           \A i \in 0 .. 7 :
               /\ (x \div Rsp!BitOf(i)) % 2 = Bit(Rsp!LowFlag(which, c[i]))
               /\ (x \div (256 * Rsp!BitOf(i))) % 2 = Bit(Rsp!HighFlag(which, c[i]))
    PROVE  Rsp!SetVFlags(which, c, x) = c
<1> DEFINE lo(i) == (x \div Rsp!BitOf(i)) % 2 = 1
           hi(i) == (x \div (256 * Rsp!BitOf(i))) % 2 = 1
           d(i) == CASE which = 0 -> [c[i] EXCEPT !.vco_l = lo(i), !.vco_h = hi(i)]
                     [] which = 1 -> [c[i] EXCEPT !.vcc_l = lo(i), !.vcc_h = hi(i)]
                     [] which = 2 -> [c[i] EXCEPT !.vce = lo(i)]
                     [] OTHER -> [c[i] EXCEPT !.vce = lo(i), !.vcc_h = hi(i)]
<1>1. Rsp!SetVFlags(which, c, x) = [i \in Rsp!Lanes |-> d(i)]
  BY Zenon DEF Rsp!SetVFlags
<1>2. ASSUME NEW i \in Rsp!Lanes
      PROVE  d(i) = c[i]
  <2>1. c[i] \in Cell /\ i \in 0 .. 7
    BY DEF Rsp!Lanes
  <2>2. /\ c[i].vco_l \in BOOLEAN /\ c[i].vco_h \in BOOLEAN /\ c[i].vcc_l \in BOOLEAN
        /\ c[i].vcc_h \in BOOLEAN /\ c[i].vce \in BOOLEAN
    BY <2>1, CellFields
  <2>3. \A b \in BOOLEAN : (Bit(b) = 1) = b
    BY DEF Bit
  <2>4. CASE which = 0
    <3>1. Rsp!LowFlag(which, c[i]) = c[i].vco_l /\ Rsp!HighFlag(which, c[i]) = c[i].vco_h
      BY <2>4 DEF Rsp!LowFlag, Rsp!HighFlag
    <3>2. lo(i) = c[i].vco_l /\ hi(i) = c[i].vco_h
      BY <2>1, <2>2, <2>3, <3>1
    <3> HIDE DEF lo, hi
    <3>3. d(i) = [c[i] EXCEPT !.vco_l = lo(i), !.vco_h = hi(i)]
      BY <2>4
    <3>4. [c[i] EXCEPT !.vco_l = c[i].vco_l, !.vco_h = c[i].vco_h] = c[i]
      BY <2>1 DEF Cell
    <3> QED
      BY ONLY <3>2, <3>3, <3>4
  <2>5. CASE which = 1
    <3>1. Rsp!LowFlag(which, c[i]) = c[i].vcc_l /\ Rsp!HighFlag(which, c[i]) = c[i].vcc_h
      BY <2>5 DEF Rsp!LowFlag, Rsp!HighFlag
    <3>2. lo(i) = c[i].vcc_l /\ hi(i) = c[i].vcc_h
      BY <2>1, <2>2, <2>3, <3>1
    <3> HIDE DEF lo, hi
    <3>3. d(i) = [c[i] EXCEPT !.vcc_l = lo(i), !.vcc_h = hi(i)]
      BY <2>5
    <3>4. [c[i] EXCEPT !.vcc_l = c[i].vcc_l, !.vcc_h = c[i].vcc_h] = c[i]
      BY <2>1 DEF Cell
    <3> QED
      BY ONLY <3>2, <3>3, <3>4
  <2>6. CASE which = 2
    <3>1. Rsp!LowFlag(which, c[i]) = c[i].vce
      BY <2>6 DEF Rsp!LowFlag
    <3>2. lo(i) = c[i].vce
      BY <2>1, <2>2, <2>3, <3>1
    <3> HIDE DEF lo, hi
    <3>3. d(i) = [c[i] EXCEPT !.vce = lo(i)]
      BY <2>6
    <3> QED
      BY <2>1, <3>2, <3>3 DEF Cell
  <2> QED
    BY <2>4, <2>5, <2>6
<1>3. c = [i \in Rsp!Lanes |-> c[i]]
  OBVIOUS
<1> HIDE DEF d
<1> QED
  BY <1>1, <1>2, <1>3

\* What cfc2 saves, ctc2 restores, in every reachable state and for each of the three
\* flag registers.
THEOREM FlagsSurvive == Spec => []FlagsRoundTrip
<1>1. TypeOK => FlagsRoundTrip
  <2> SUFFICES ASSUME TypeOK, NEW which \in 0 .. 2
               PROVE  Rsp!SetVFlags(which, UnitCells,
                          (Wrap(Rsp!GetVFlags(which, UnitCells), 32768) % GprMod) % 65536)
                        = UnitCells
    BY DEF FlagsRoundTrip
  <2> DEFINE x == Rsp!GetVFlags(which, UnitCells)
  <2>1. UnitCells \in [Rsp!Lanes -> Cell]
    BY UnitType
  <2>2. /\ x \in Nat /\ x <= 65535
        /\ \A i \in 0 .. 7 :
               /\ (x \div Rsp!BitOf(i)) % 2 = Bit(Rsp!LowFlag(which, UnitCells[i]))
               /\ (x \div (256 * Rsp!BitOf(i))) % 2 = Bit(Rsp!HighFlag(which, UnitCells[i]))
    BY VFlagsDigits
  <2> HIDE DEF x
  <2>3. (Wrap(x, 32768) % GprMod) % 65536 = x
    <3>1. /\ 2 * 32768 = 65536 /\ x < 2 * 32768 /\ 32768 \in Nat /\ 32768 > 0
          /\ GprMod \in Nat /\ GprMod > 0 /\ GprMod % (2 * 32768) = 0
      BY <2>2, GprAssumption
    <3>2. (Wrap(x, 32768) % GprMod) % (2 * 32768) = x
      BY ONLY <2>2, <3>1, SavedBack
    <3> QED
      BY ONLY <3>1, <3>2
  <2>4. Rsp!SetVFlags(which, UnitCells, x) = UnitCells
    BY <2>1, <2>2, FlagsRestored
  <2> QED
    BY ONLY <2>3, <2>4 DEF x
<1> QED
  BY <1>1, VecTypeCorrect, PTL

=============================================================================
