-------------------------- MODULE AmotaBytesProofs --------------------------
(***************************************************************************)
(* What AmotaBytes says of the bytes and the numbers, for every image,     *)
(* every buffer and every size of the packets that BytesAssumption allows. *)
(* Of the CRC, TLC evaluates the 256 entries of the table                  *)
(* (TableAssumption); that the sum by the table is then the CRC of any     *)
(* data is proved here.                                                    *)
(***************************************************************************)
EXTENDS AmotaBytes, SequenceTheorems, TLAPS

-----------------------------------------------------------------------------
(* The binary digits of bytes and of Ints.                                 *)

\* The powers of two of a word.
LEMMA PowersOfTwo ==
  ASSUME NEW k \in 0..30
  PROVE  /\ 2^k \in Nat \ {0}
         /\ k >= 8 => 2^k >= 256
         /\ 2^(8 + k) = 256 * 2^k
<1>0. CASE k = 0
  BY SMT, <1>0
<1>1. CASE k = 1
  BY SMT, <1>1
<1>2. CASE k = 2
  BY SMT, <1>2
<1>3. CASE k = 3
  BY SMT, <1>3
<1>4. CASE k = 4
  BY SMT, <1>4
<1>5. CASE k = 5
  BY SMT, <1>5
<1>6. CASE k = 6
  BY SMT, <1>6
<1>7. CASE k = 7
  BY SMT, <1>7
<1>8. CASE k = 8
  BY SMT, <1>8
<1>9. CASE k = 9
  BY SMT, <1>9
<1>10. CASE k = 10
  BY SMT, <1>10
<1>11. CASE k = 11
  BY SMT, <1>11
<1>12. CASE k = 12
  BY SMT, <1>12
<1>13. CASE k = 13
  BY SMT, <1>13
<1>14. CASE k = 14
  BY SMT, <1>14
<1>15. CASE k = 15
  BY SMT, <1>15
<1>16. CASE k = 16
  BY SMT, <1>16
<1>17. CASE k = 17
  BY SMT, <1>17
<1>18. CASE k = 18
  BY SMT, <1>18
<1>19. CASE k = 19
  BY SMT, <1>19
<1>20. CASE k = 20
  BY SMT, <1>20
<1>21. CASE k = 21
  BY SMT, <1>21
<1>22. CASE k = 22
  BY SMT, <1>22
<1>23. CASE k = 23
  BY SMT, <1>23
<1>24. CASE k = 24
  BY SMT, <1>24
<1>25. CASE k = 25
  BY SMT, <1>25
<1>26. CASE k = 26
  BY SMT, <1>26
<1>27. CASE k = 27
  BY SMT, <1>27
<1>28. CASE k = 28
  BY SMT, <1>28
<1>29. CASE k = 29
  BY SMT, <1>29
<1>30. CASE k = 30
  BY SMT, <1>30
<1> QED
  BY SMT, <1>0, <1>1, <1>2, <1>3, <1>4, <1>5, <1>6, <1>7,
     <1>8, <1>9, <1>10, <1>11, <1>12, <1>13, <1>14, <1>15,
     <1>16, <1>17, <1>18, <1>19, <1>20, <1>21, <1>22, <1>23,
     <1>24, <1>25, <1>26, <1>27, <1>28, <1>29, <1>30

\* The 1 bits of a byte are among its eight digits.
LEMMA WordOfByte ==
  ASSUME NEW b \in Bytes
  PROVE  Word(b) = {k \in 0..7 : (b \div 2^k) % 2 = 1}
<1>1. ASSUME NEW k \in 8..30
      PROVE  (b \div 2^k) % 2 # 1
  <2>1. 2^k \in Nat /\ b < 2^k
    <3>1. b < 256
      BY SMT DEF Bytes
    <3>2. 2^k \in Nat /\ 2^k >= 256
      <4>1. k \in 0..30 /\ k >= 8
        BY SMT
      <4> QED
        BY <4>1, PowersOfTwo, Zenon
    <3> QED
      BY <3>1, <3>2, SMT DEF Bytes
  <2> DEFINE d == 2^k
  <2> HIDE DEF d
  <2>2. b \div d = 0
    BY <2>1, SMT DEF Bytes, d
  <2> QED
    BY <2>2, SMT DEF d
<1>2. b >= 0
  BY DEF Bytes
<1>4. \A k \in 0..30 : k \in 0..7 \/ k \in 8..30
  BY SMT
<1>5. \A k \in 0..7 : k \in 0..30
  BY SMT
<1> DEFINE One(k) == (b \div 2^k) % 2 = 1
<1>6. Word(b) = {k \in 0..30 : One(k)}
  BY <1>2, SMT DEF Word
<1>7. \A k \in 8..30 : ~One(k)
  BY <1>1
<1> HIDE DEF One
<1>8. {k \in 0..30 : One(k)} = {k \in 0..7 : One(k)}
  BY <1>4, <1>5, <1>7, SMT
<1> QED
  BY <1>6, <1>8 DEF One

\* The 1 bits of a number.
Digit(x, k) == (x \div 2^k) % 2 = 1

\* A number above a byte.
Above(h, b) == h * 256 + b

\* The digits of a number are those of its lowest byte ...
LEMMA DigitsOfLowByte ==
  ASSUME NEW h \in Nat, NEW b \in Bytes, NEW k \in 0..7
  PROVE  (Above(h, b) \div 2^k) % 2 = (b \div 2^k) % 2
<1>0. CASE k = 0
  BY SMT, <1>0 DEF Bytes, Above
<1>1. CASE k = 1
  BY SMT, <1>1 DEF Bytes, Above
<1>2. CASE k = 2
  BY SMT, <1>2 DEF Bytes, Above
<1>3. CASE k = 3
  BY SMT, <1>3 DEF Bytes, Above
<1>4. CASE k = 4
  BY SMT, <1>4 DEF Bytes, Above
<1>5. CASE k = 5
  BY SMT, <1>5 DEF Bytes, Above
<1>6. CASE k = 6
  BY SMT, <1>6 DEF Bytes, Above
<1>7. CASE k = 7
  BY SMT, <1>7 DEF Bytes, Above
<1> QED
  BY SMT, <1>0, <1>1, <1>2, <1>3, <1>4, <1>5, <1>6, <1>7

\* ... and, eight positions higher, those of the number above it.
LEMMA DigitsAboveByte ==
  ASSUME NEW h \in Nat, NEW b \in Bytes, NEW k \in 0..22
  PROVE  Above(h, b) \div 2^(8 + k) = h \div 2^k
<1>1. 2^k \in Nat \ {0} /\ 2^(8 + k) = 256 * 2^k
  <2>1. k \in 0..30
    BY SMT
  <2> QED
    BY <2>1, PowersOfTwo, Zenon
<1>2. ASSUME NEW d \in Nat \ {0}
      PROVE  (h * 256 + b) \div (256 * d) = h \div d
  BY SMT DEF Bytes
<1> QED
  BY <1>1, <1>2, Zenon DEF Above

\* The sum of four shifted bytes, the highest first.
Shifted(b4, b3, b2, b1) == b4 * 2^24 + b3 * 2^16 + b2 * 2^8 + b1

SevenBits == 0..127

\* The digits of the sum of four shifted bytes are those of the bytes.
LEMMA DigitsOfBytes ==
  ASSUME NEW b1 \in Bytes, NEW b2 \in Bytes, NEW b3 \in Bytes,
         NEW b4 \in SevenBits, NEW k \in 0..7
  PROVE  LET N == Shifted(b4, b3, b2, b1) IN
         /\ Digit(N, k) <=> Digit(b1, k)
         /\ Digit(N, 8 + k) <=> Digit(b2, k)
         /\ Digit(N, 16 + k) <=> Digit(b3, k)
         /\ k < 7 => (Digit(N, 24 + k) <=> Digit(b4, k))
<1> DEFINE N == Shifted(b4, b3, b2, b1)
           h1 == b4 * 65536 + b3 * 256 + b2
           h2 == Above(b4, b3)
<1>1. /\ N = Above(h1, b1) /\ h1 \in Nat
      /\ h1 = Above(h2, b2) /\ h2 \in Nat
      /\ b4 \in Nat /\ b4 \in Bytes
      /\ 8 + k \in 0..22 /\ k \in 0..22 /\ 8 + (8 + k) = 16 + k
  <2>0. N = b4 * 16777216 + b3 * 65536 + b2 * 256 + b1
    BY SMT DEF Shifted, Bytes, SevenBits
  <2>1. N = Above(h1, b1) /\ h1 = Above(h2, b2)
    BY <2>0, SMT DEF Bytes, Above, SevenBits
  <2>2. h2 \in Nat /\ h1 \in Nat /\ b4 \in Nat /\ b4 \in Bytes
    BY SMT DEF Bytes, Above, SevenBits
  <2>3. 8 + k \in 0..22 /\ k \in 0..22 /\ 8 + (8 + k) = 16 + k
    BY SMT
  <2> QED
    BY <2>1, <2>2, <2>3
<1> HIDE DEF N, h1, h2
<1>2. (N \div 2^k) % 2 = (b1 \div 2^k) % 2
  <2>1. (Above(h1, b1) \div 2^k) % 2 = (b1 \div 2^k) % 2
    BY <1>1, DigitsOfLowByte, Zenon
  <2> QED
    BY <1>1, <2>1, Zenon
<1>3. N \div 2^(8 + k) = h1 \div 2^k
  <2>1. Above(h1, b1) \div 2^(8 + k) = h1 \div 2^k
    BY <1>1, DigitsAboveByte, Zenon
  <2> QED
    BY <1>1, <2>1, Zenon
<1>4. (h1 \div 2^k) % 2 = (b2 \div 2^k) % 2
  <2>1. (Above(h2, b2) \div 2^k) % 2 = (b2 \div 2^k) % 2
    BY <1>1, DigitsOfLowByte, Zenon
  <2> QED
    BY <1>1, <2>1, Zenon
<1>5. N \div 2^(16 + k) = h2 \div 2^k
  <2>1. Above(h1, b1) \div 2^(8 + (8 + k)) = h1 \div 2^(8 + k)
    BY <1>1, DigitsAboveByte, Zenon
  <2>2. Above(h2, b2) \div 2^(8 + k) = h2 \div 2^k
    BY <1>1, DigitsAboveByte, Zenon
  <2> QED
    BY <1>1, <2>1, <2>2, Zenon
<1>6. (h2 \div 2^k) % 2 = (b3 \div 2^k) % 2
  <2>1. (Above(b4, b3) \div 2^k) % 2 = (b3 \div 2^k) % 2
    BY <1>1, DigitsOfLowByte, Zenon
  <2> QED
    BY <2>1, Zenon DEF h2
<1>7. ASSUME k < 7
      PROVE  (N \div 2^(24 + k)) % 2 = (b4 \div 2^k) % 2
  <2>1. /\ 16 + k \in 0..22 /\ 8 + (16 + k) = 24 + k
        /\ 8 + (8 + k) = 16 + k
    BY <1>7, SMT
  <2>2. Above(h1, b1) \div 2^(8 + (16 + k)) = h1 \div 2^(16 + k)
    BY <1>1, <2>1, DigitsAboveByte, Zenon
  <2>3. Above(h2, b2) \div 2^(8 + (8 + k)) = h2 \div 2^(8 + k)
    BY <1>1, DigitsAboveByte, Zenon
  <2>4. Above(b4, b3) \div 2^(8 + k) = b4 \div 2^k
    BY <1>1, DigitsAboveByte, Zenon
  <2>5. N \div 2^(24 + k) = h1 \div 2^(16 + k)
    BY <1>1, <2>1, <2>2, Zenon
  <2>6. h1 \div 2^(16 + k) = h2 \div 2^(8 + k)
    BY <1>1, <2>1, <2>3, Zenon
  <2>7. h2 \div 2^(8 + k) = b4 \div 2^k
    BY <2>4, Zenon DEF h2
  <2> QED
    BY <2>5, <2>6, <2>7, Zenon
<1>8. N = Shifted(b4, b3, b2, b1)
  BY DEF N
<1> QED
  BY <1>2, <1>3, <1>4, <1>5, <1>6, <1>7, <1>8, Zenon DEF Digit

\* The same for all digits at once, of a number given by its bytes.
LEMMA NumberOfDigits ==
  ASSUME NEW n, NEW b1 \in Bytes, NEW b2 \in Bytes, NEW b3 \in Bytes,
         NEW b4 \in SevenBits, n = Shifted(b4, b3, b2, b1)
  PROVE  \A k \in 0..7 : /\ Digit(n, k) <=> Digit(b1, k)
                         /\ Digit(n, 8 + k) <=> Digit(b2, k)
                         /\ Digit(n, 16 + k) <=> Digit(b3, k)
                         /\ k < 7 => (Digit(n, 24 + k) <=> Digit(b4, k))
  BY DigitsOfBytes, SMT

\* The digits of the complement of a byte.
LEMMA ComplementDigits ==
  ASSUME NEW b \in Bytes, NEW k \in 0..7
  PROVE  /\ 255 - b \in Bytes
         /\ ((255 - b) \div 2^k) % 2 = 1 <=> (b \div 2^k) % 2 # 1
<1> 255 - b \in Bytes
  BY DEF Bytes
<1>0. CASE k = 0
  BY SMT, <1>0 DEF Bytes
<1>1. CASE k = 1
  BY SMT, <1>1 DEF Bytes
<1>2. CASE k = 2
  BY SMT, <1>2 DEF Bytes
<1>3. CASE k = 3
  BY SMT, <1>3 DEF Bytes
<1>4. CASE k = 4
  BY SMT, <1>4 DEF Bytes
<1>5. CASE k = 5
  BY SMT, <1>5 DEF Bytes
<1>6. CASE k = 6
  BY SMT, <1>6 DEF Bytes
<1>7. CASE k = 7
  BY SMT, <1>7 DEF Bytes
<1> QED
  BY SMT, <1>0, <1>1, <1>2, <1>3, <1>4, <1>5, <1>6, <1>7

\* ToByte gathers the digits of a byte from the bits of the word.
LEMMA ByteDigits ==
  ASSUME NEW w, NEW n \in Nat
  PROVE  /\ ToByte(w, n) \in Bytes
         /\ \A k \in 0..7 : (ToByte(w, n) \div 2^k) % 2 = 1 <=> 8 * n + k \in w
<1> ToByte(w, n) \in Bytes
  BY SMT DEF ToByte, Bytes
<1> SUFFICES ASSUME NEW k \in 0..7
             PROVE  (ToByte(w, n) \div 2^k) % 2 = 1 <=> 8 * n + k \in w
  OBVIOUS
<1>0. CASE k = 0
  BY SMT, <1>0 DEF ToByte, Bytes
<1>1. CASE k = 1
  BY SMT, <1>1 DEF ToByte, Bytes
<1>2. CASE k = 2
  BY SMT, <1>2 DEF ToByte, Bytes
<1>3. CASE k = 3
  BY SMT, <1>3 DEF ToByte, Bytes
<1>4. CASE k = 4
  BY SMT, <1>4 DEF ToByte, Bytes
<1>5. CASE k = 5
  BY SMT, <1>5 DEF ToByte, Bytes
<1>6. CASE k = 6
  BY SMT, <1>6 DEF ToByte, Bytes
<1>7. CASE k = 7
  BY SMT, <1>7 DEF ToByte, Bytes
<1> QED
  BY SMT, <1>0, <1>1, <1>2, <1>3, <1>4, <1>5, <1>6, <1>7

-----------------------------------------------------------------------------
(* Words.                                                                  *)

LEMMA WordIn ==
  /\ \A n : Word(n) \subseteq 0..31
  /\ AllOnes = 0..31
<1>1. \A n : Word(n) \subseteq 0..31
  BY SMT DEF Word
<1>2. ~(-1 >= 0) /\ -((-1) + 1) = 0
  <2>1. ~(-1 >= 0)
    BY SMT
  <2>2. \A n \in Int : n + (-n) = 0 /\ -n \in Int
    BY SMT
  <2>3. \A n, m \in Int : n = 0 /\ n + m = 0 => m = 0
    BY SMT
  <2>4. (-1) + 1 = 0 /\ (-1) + 1 \in Int
    BY SMT
  <2> QED
    BY <2>1, <2>2, <2>3, <2>4, Zenon
<1>3. ASSUME NEW k \in 0..30
      PROVE  (0 \div 2^k) % 2 # 1
  <2>1. 2^k \in Nat \ {0}
    BY PowersOfTwo
  <2>2. \A d \in Nat \ {0} : 0 \div d = 0
    BY SMT
  <2>3. 0 \div 2^k = 0 /\ 0 % 2 # 1
    BY <2>1, <2>2, SMT
  <2> QED
    BY <2>3, Zenon
<1>4. {k \in 0..30 : ((-((-1) + 1)) \div 2^k) % 2 = 1} = {}
  BY <1>2, <1>3
<1>5. Word(-1) = 0..31
  BY <1>2, <1>4, SMT DEF Word
<1> QED
  BY <1>1, <1>5 DEF AllOnes

\* The steps of both calculations stay within 32 bits.
LEMMA StepsWithin ==
  ASSUME NEW w, w \subseteq 0..31, NEW byte
  PROVE  /\ TableStep(w, byte) \subseteq 0..31
         /\ PolynomialStep(w, byte) \subseteq 0..31
<1>1. ASSUME NEW v, v \subseteq 0..31, NEW u, u \subseteq 0..31
      PROVE  Xor(v, u) \subseteq 0..31
  BY <1>1 DEF Xor
<1>2. ASSUME NEW v, v \subseteq 0..31, NEW n \in Nat
      PROVE  Ushr(v, n) \subseteq 0..31
  BY <1>2 DEF Ushr
<1>3. Polynomial \subseteq 0..31
  BY WordIn DEF Polynomial
<1>4. ASSUME NEW v, v \subseteq 0..31
      PROVE  PolynomialBit(v) \subseteq 0..31
  BY <1>1, <1>2, <1>3, <1>4 DEF PolynomialBit
<1> DEFINE two(v) == PolynomialBit(PolynomialBit(v))
           four(v) == two(two(v))
<1>5. ASSUME NEW v, v \subseteq 0..31
      PROVE  two(v) \subseteq 0..31
  BY <1>4, <1>5
<1> HIDE DEF two
<1>6. ASSUME NEW v, v \subseteq 0..31
      PROVE  four(v) \subseteq 0..31
  BY <1>5, <1>6
<1> HIDE DEF four
<1>7. four(four(Xor(w, Word(byte)))) \subseteq 0..31
  BY <1>1, <1>6, WordIn
<1>8. PolynomialStep(w, byte) \subseteq 0..31
  BY <1>7 DEF PolynomialStep, two, four
<1>9. TableStep(w, byte) \subseteq 0..31
  BY <1>1, <1>2, WordIn DEF TableStep
<1> QED
  BY <1>8, <1>9

\* The bits of four bytes are their digits.
LEMMA FromBytesDigits ==
  ASSUME NEW b, \A n \in 0..3 : b[n + 1] \in Bytes
  PROVE  /\ FromBytes(b) \subseteq 0..31
         /\ \A n \in 0..3, k \in 0..7 :
              8 * n + k \in FromBytes(b) <=> (b[n + 1] \div 2^k) % 2 = 1
<1>1. ASSUME NEW n \in 0..3
      PROVE  Word(b[n + 1]) = {k \in 0..7 : (b[n + 1] \div 2^k) % 2 = 1}
  BY WordOfByte
<1>2. \A j : j \in FromBytes(b) <=>
               \E n \in 0..3 : \E k \in Word(b[n + 1]) : j = 8 * n + k
  BY DEF FromBytes
<1> DEFINE One(n, k) == (b[n + 1] \div 2^k) % 2 = 1
<1>3. \A j : j \in FromBytes(b) <=>
               \E n \in 0..3 : \E k \in 0..7 : One(n, k) /\ j = 8 * n + k
  BY <1>1, <1>2
<1> HIDE DEF One
<1>4. FromBytes(b) \subseteq 0..31
  BY <1>3
<1>5. ASSUME NEW n \in 0..3, NEW k \in 0..7
      PROVE  8 * n + k \in FromBytes(b) <=> One(n, k)
  <2>1. ASSUME NEW m \in 0..3, NEW l \in 0..7, 8 * n + k = 8 * m + l
        PROVE  n = m /\ k = l
    BY <2>1
  <2> QED
    BY <1>3, <2>1
<1> QED
  BY <1>4, <1>5 DEF One

\* Every bit of a 32-bit word has a byte and a digit.
LEMMA Positions ==
  \A j \in 0..31 : \E n \in 0..3, k \in 0..7 : j = 8 * n + k
<1> TAKE j \in 0..31
<1>1. j \div 8 \in 0..3 /\ j % 8 \in 0..7 /\ j = 8 * (j \div 8) + (j % 8)
  BY SMT
<1> QED
  BY <1>1

\* The range and the sign of the Int of four bytes, and its complement.
LEMMA IntOfBytes ==
  ASSUME NEW b1 \in Bytes, NEW b2 \in Bytes, NEW b3 \in Bytes, NEW b4 \in Bytes,
         NEW N, N = Shifted(IF b4 < 128 THEN b4 ELSE b4 - 256, b3, b2, b1)
  PROVE  /\ N \in Int /\ Int32(N)
         /\ b4 < 128 => N >= 0 /\ b4 \in SevenBits
         /\ ~(b4 < 128) => /\ ~(N >= 0) /\ 255 - b4 \in SevenBits
                           /\ -(N + 1) =
                                Shifted(255 - b4, 255 - b3, 255 - b2, 255 - b1)
<1>1. 2^24 = 16777216 /\ 2^16 = 65536 /\ 2^8 = 256
  BY SMT
<1>2. N = (IF b4 < 128 THEN b4 ELSE b4 - 256) * 16777216
            + b3 * 65536 + b2 * 256 + b1
  BY <1>1 DEF Shifted
<1>3. N \in Int /\ -2147483648 <= N /\ N <= 2147483647
  BY <1>2, SMT DEF Bytes, SevenBits
<1>4. Int32(N)
  <2>1. 2^30 = 1073741824
    BY SMT
  <2>2. -2^30 - 2^30 = -2147483648 /\ 2^30 - 1 + 2^30 = 2147483647
    BY <2>1, SMT
  <2> QED
    BY <1>3, <2>2 DEF Int32
<1>5. b4 < 128 => N >= 0 /\ b4 \in SevenBits
  BY <1>2, SMT DEF Bytes, SevenBits
<1>6. ASSUME ~(b4 < 128)
      PROVE  /\ ~(N >= 0) /\ 255 - b4 \in SevenBits
             /\ -(N + 1) = (255 - b4) * 16777216 + (255 - b3) * 65536
                             + (255 - b2) * 256 + (255 - b1)
  BY <1>2, <1>6, SMT DEF Bytes, SevenBits
<1> QED
  BY <1>1, <1>3, <1>4, <1>5, <1>6 DEF Shifted

\* Decode takes the four bytes for the Int of their bits.
LEMMA WordOfDecode ==
  ASSUME NEW b, \A n \in 0..3 : b[n + 1] \in Bytes
  PROVE  /\ Word(Decode(b)) = FromBytes(b)
         /\ Int32(Decode(b))
         /\ Decode(b) \in Int
<1>1. b[1] \in Bytes /\ b[2] \in Bytes /\ b[3] \in Bytes /\ b[4] \in Bytes
  <2>1. 0 + 1 = 1 /\ 1 + 1 = 2 /\ 2 + 1 = 3 /\ 3 + 1 = 4
    BY SMT
  <2> QED
    BY <2>1
<1>2. /\ Decode(b) \in Int /\ Int32(Decode(b))
      /\ b[4] < 128 => Decode(b) >= 0 /\ b[4] \in SevenBits
      /\ ~(b[4] < 128) =>
           /\ ~(Decode(b) >= 0) /\ 255 - b[4] \in SevenBits
           /\ -(Decode(b) + 1) =
                Shifted(255 - b[4], 255 - b[3], 255 - b[2], 255 - b[1])
  <2>1. Decode(b) =
          Shifted(IF b[4] < 128 THEN b[4] ELSE b[4] - 256, b[3], b[2], b[1])
    BY DEF Decode, Shifted
  <2> QED
    BY <1>1, <2>1, IntOfBytes
<1> DEFINE N == Decode(b)
<1>3. \A k \in 0..7 : /\ k \in FromBytes(b) <=> Digit(b[1], k)
                      /\ 8 + k \in FromBytes(b) <=> Digit(b[2], k)
                      /\ 16 + k \in FromBytes(b) <=> Digit(b[3], k)
                      /\ 24 + k \in FromBytes(b) <=> Digit(b[4], k)
  <2> TAKE k \in 0..7
  <2>1. /\ 8 * 0 + k = k /\ 8 * 1 + k = 8 + k /\ 8 * 2 + k = 16 + k
        /\ 8 * 3 + k = 24 + k
        /\ 0 + 1 = 1 /\ 1 + 1 = 2 /\ 2 + 1 = 3 /\ 3 + 1 = 4
        /\ 0 \in 0..3 /\ 1 \in 0..3 /\ 2 \in 0..3 /\ 3 \in 0..3
    BY SMT
  <2>2. \A n \in 0..3 : 8 * n + k \in FromBytes(b) <=> Digit(b[n + 1], k)
    BY FromBytesDigits DEF Digit
  <2> QED
    BY <2>1, <2>2, Zenon
<1>4. \A j \in 0..31 : \/ j \in 0..7
                       \/ j - 8 \in 0..7 /\ j = 8 + (j - 8)
                       \/ j - 16 \in 0..7 /\ j = 16 + (j - 16)
                       \/ j - 24 \in 0..7 /\ j = 24 + (j - 24)
  BY SMT
<1>5. CASE b[4] < 128
  <2>1. N >= 0 /\ b[4] \in SevenBits
    BY <1>2, <1>5
  <2>2. N = Shifted(b[4], b[3], b[2], b[1])
    BY <1>5 DEF Decode, Shifted
  <2>3. \A k \in 0..7 : /\ Digit(N, k) <=> Digit(b[1], k)
                        /\ Digit(N, 8 + k) <=> Digit(b[2], k)
                        /\ Digit(N, 16 + k) <=> Digit(b[3], k)
                        /\ k < 7 => (Digit(N, 24 + k) <=> Digit(b[4], k))
    <3> HIDE DEF N
    <3> QED
      BY <1>1, <2>1, <2>2, NumberOfDigits
  <2>4. ~Digit(b[4], 7)
    BY <2>1, SMT DEF Digit, SevenBits
  <2>5. Word(N) = {k \in 0..30 : Digit(N, k)}
    BY <2>1 DEF Word, Digit
  <2> HIDE DEF N
  <2>6. ASSUME NEW j \in 0..31
        PROVE  j \in Word(N) <=> j \in FromBytes(b)
    <3>1. CASE j \in 0..7
      BY <1>3, <2>3, <2>5, <3>1
    <3>2. CASE j - 8 \in 0..7 /\ j = 8 + (j - 8)
      BY <1>3, <2>3, <2>5, <3>2
    <3>3. CASE j - 16 \in 0..7 /\ j = 16 + (j - 16)
      BY <1>3, <2>3, <2>5, <3>3
    <3>4. CASE j - 24 \in 0..7 /\ j = 24 + (j - 24)
      <4>1. CASE j = 31
        BY <1>3, <2>4, <2>5, <3>4, <4>1
      <4>2. CASE j # 31
        BY <1>3, <2>3, <2>5, <3>4, <4>2
      <4> QED
        BY <4>1, <4>2
    <3> QED
      BY <1>4, <3>1, <3>2, <3>3, <3>4
  <2> QED
    BY <1>2, <2>6, WordIn, FromBytesDigits DEF N
<1>6. CASE ~(b[4] < 128)
  <2> DEFINE c(n) == 255 - b[n]
             M == -(N + 1)
  <2>1. ~(N >= 0) /\ N \in Int /\ c(4) \in SevenBits
    BY <1>2, <1>6
  <2>2. M = Shifted(c(4), c(3), c(2), c(1))
    BY <1>2, <1>6
  <2>3. /\ c(1) \in Bytes /\ c(2) \in Bytes /\ c(3) \in Bytes /\ c(4) \in Bytes
        /\ \A k \in 0..7 : /\ Digit(c(1), k) <=> ~Digit(b[1], k)
                           /\ Digit(c(2), k) <=> ~Digit(b[2], k)
                           /\ Digit(c(3), k) <=> ~Digit(b[3], k)
                           /\ Digit(c(4), k) <=> ~Digit(b[4], k)
    BY <1>1, ComplementDigits DEF Digit
  <2>4. \A k \in 0..7 : /\ Digit(M, k) <=> ~Digit(b[1], k)
                        /\ Digit(M, 8 + k) <=> ~Digit(b[2], k)
                        /\ Digit(M, 16 + k) <=> ~Digit(b[3], k)
                        /\ k < 7 => (Digit(M, 24 + k) <=> ~Digit(b[4], k))
    <3>1. \A k \in 0..7 : /\ Digit(M, k) <=> Digit(c(1), k)
                          /\ Digit(M, 8 + k) <=> Digit(c(2), k)
                          /\ Digit(M, 16 + k) <=> Digit(c(3), k)
                          /\ k < 7 => (Digit(M, 24 + k) <=> Digit(c(4), k))
      <4>1. c(1) \in Bytes /\ c(2) \in Bytes /\ c(3) \in Bytes
        BY <2>3, Zenon
      <4> HIDE DEF M, c
      <4>2. c(4) \in SevenBits
        BY <2>1, Zenon
      <4> QED
        BY <4>1, <4>2, <2>2, NumberOfDigits, SMT
    <3> HIDE DEF M, c
    <3> QED
      BY <2>3, <3>1
  <2>5. Digit(b[4], 7)
    BY <1>1, <1>6, SMT DEF Bytes, Digit
  <2>6. Word(N) = (0..31) \ {k \in 0..30 : Digit(M, k)}
    BY <2>1 DEF Word, Digit
  <2> HIDE DEF N, M, c
  <2>7. ASSUME NEW j \in 0..31
        PROVE  j \in Word(N) <=> j \in FromBytes(b)
    <3>1. CASE j \in 0..7
      BY <1>3, <2>4, <2>6, <3>1
    <3>2. CASE j - 8 \in 0..7 /\ j = 8 + (j - 8)
      BY <1>3, <2>4, <2>6, <3>2
    <3>3. CASE j - 16 \in 0..7 /\ j = 16 + (j - 16)
      BY <1>3, <2>4, <2>6, <3>3
    <3>4. CASE j - 24 \in 0..7 /\ j = 24 + (j - 24)
      <4>1. CASE j = 31
        BY <1>3, <2>5, <2>6, <3>4, <4>1
      <4>2. CASE j # 31
        BY <1>3, <2>4, <2>6, <3>4, <4>2
      <4> QED
        BY <4>1, <4>2
    <3> QED
      BY <1>4, <3>1, <3>2, <3>3, <3>4
  <2> QED
    BY <1>2, <2>7, WordIn, FromBytesDigits DEF N
<1> QED
  BY <1>5, <1>6

\* The checksum field carries the complement of the sum, and a packet without
\* data the complement of the sum of no bytes.
LEMMA ChecksumRead ==
  ASSUME NEW w, w \subseteq 0..31
  PROVE  /\ CrcField(w) \in [1..4 -> Bytes]
         /\ FromBytes(CrcField(w)) = Xor(w, AllOnes)
<1>1. CrcSizeInPkt = 4
  BY BytesAssumption
<1>2. \A n \in 1..4 : n - 1 \in Nat
  BY SMT
<1>3. CrcField(w) \in [1..4 -> Bytes]
  BY <1>1, <1>2, ByteDigits DEF CrcField
<1> DEFINE f == CrcField(w)
<1>4. \A n \in 0..3 : n + 1 \in 1..4 /\ (n + 1) - 1 = n /\ n \in Nat
  BY SMT
<1>5. \A n \in 0..3 : f[n + 1] = ToByte(Xor(w, AllOnes), n)
  BY <1>1, <1>4, Zenon DEF CrcField
<1>6. \A n \in 0..3, k \in 0..7 :
        Digit(f[n + 1], k) <=> 8 * n + k \in Xor(w, AllOnes)
  <2> TAKE n \in 0..3, k \in 0..7
  <2>1. Digit(ToByte(Xor(w, AllOnes), n), k) <=> 8 * n + k \in Xor(w, AllOnes)
    BY <1>4, ByteDigits DEF Digit
  <2> QED
    BY <1>5, <2>1, Zenon
<1>7. \A n \in 0..3 : f[n + 1] \in Bytes
  BY <1>3, <1>4
<1> HIDE DEF f
<1>8. /\ FromBytes(f) \subseteq 0..31
      /\ \A n \in 0..3, k \in 0..7 :
           8 * n + k \in FromBytes(f) <=> Digit(f[n + 1], k)
  BY <1>7, FromBytesDigits DEF Digit
<1>9. ASSUME NEW j \in 0..31
      PROVE  j \in FromBytes(f) <=> j \in Xor(w, AllOnes)
  BY <1>6, <1>8, Positions, Zenon
<1>10. Xor(w, AllOnes) \subseteq 0..31
  BY WordIn DEF Xor
<1>11. FromBytes(f) = Xor(w, AllOnes)
  BY <1>8, <1>9, <1>10
<1> QED
  BY <1>3, <1>11 DEF f

LEMMA NoChecksumRead ==
  FromBytes(<<0, 0, 0, 0>>) = Xor(AllOnes, AllOnes)
<1> DEFINE f == <<0, 0, 0, 0>>
<1>1. \A n \in 0..3 : f[n + 1] = 0
  BY SMT
<1>2. 0 \in Bytes
  BY DEF Bytes
<1>3. \A k \in 0..7 : ~Digit(0, k)
  <2> TAKE k \in 0..7
  <2>0. CASE k = 0 BY SMT, <2>0 DEF Digit
  <2>1. CASE k = 1 BY SMT, <2>1 DEF Digit
  <2>2. CASE k = 2 BY SMT, <2>2 DEF Digit
  <2>3. CASE k = 3 BY SMT, <2>3 DEF Digit
  <2>4. CASE k = 4 BY SMT, <2>4 DEF Digit
  <2>5. CASE k = 5 BY SMT, <2>5 DEF Digit
  <2>6. CASE k = 6 BY SMT, <2>6 DEF Digit
  <2>7. CASE k = 7 BY SMT, <2>7 DEF Digit
  <2> QED
    BY SMT, <2>0, <2>1, <2>2, <2>3, <2>4, <2>5, <2>6, <2>7
<1> HIDE DEF f
<1>4. /\ FromBytes(f) \subseteq 0..31
      /\ \A n \in 0..3, k \in 0..7 :
           8 * n + k \in FromBytes(f) <=> Digit(f[n + 1], k)
  BY <1>1, <1>2, FromBytesDigits DEF Digit
<1>5. ASSUME NEW j \in 0..31
      PROVE  j \notin FromBytes(f)
  BY <1>1, <1>3, <1>4, Positions, Zenon
<1>6. Xor(AllOnes, AllOnes) = {}
  BY DEF Xor
<1> QED
  BY <1>4, <1>5, <1>6 DEF f

-----------------------------------------------------------------------------
(* The percentage.                                                         *)

LEMMA QuotientBounds ==
  ASSUME NEW a \in Nat, NEW b \in Nat \ {0}
  PROVE  a \div b \in 0..a
<1>1. /\ a \div b \in Int
      /\ b * (a \div b) <= a /\ a < b * (a \div b) + b
  BY SMT
<1> DEFINE q == a \div b
<1> HIDE DEF q
<1>2. q \in Int /\ b * q <= a /\ a < b * q + b
  BY <1>1 DEF q
<1>3. q >= 0
  BY <1>2, SMT
<1>4. q <= a
  BY <1>2, <1>3, SMT
<1> QED
  BY <1>2, <1>3, <1>4 DEF q

\* Up to MaxExact nothing of n * 100 is lost.
LEMMA Times100Exact ==
  ASSUME NEW n \in Nat, n <= MaxExact
  PROVE  Times100(n) = n * 100
  BY SMT DEF MaxExact, Times100

\* The result of a multiplication is an Int, whatever is lost.
LEMMA Times100Range ==
  ASSUME NEW n \in Nat
  PROVE  /\ Times100(n) \in Int
         /\ -2147483648 <= Times100(n) /\ Times100(n) <= 2147483647
<1> DEFINE low  == (n % 65536) * 100
           high == ((n \div 65536) * 100 + low \div 65536) % 65536
<1>1. Times100(n) = (IF high < 32768 THEN high ELSE high - 65536) * 65536
                      + (low % 65536)
  <2>1. 2^16 = 65536 /\ 2^15 = 32768
    BY SMT
  <2> QED
    BY <2>1, SMT DEF Times100
<1>2. low \in Nat /\ (n \div 65536) * 100 + low \div 65536 \in Nat
  BY SMT
<1> HIDE DEF low
<1> DEFINE rest == low % 65536
<1>3. high \in Nat /\ high <= 65535 /\ rest \in Nat /\ rest <= 65535
  BY <1>2, SMT
<1>4. Times100(n) = (IF high < 32768 THEN high ELSE high - 65536) * 65536 + rest
  BY <1>1
<1> HIDE DEF high, rest
<1> QED
  BY <1>3, <1>4, SMT

LEMMA PercentExact ==
  ASSUME NEW size \in Nat \ {0}, size <= MaxExact, NEW n \in 0..size
  PROVE  /\ Percent(n, size) = (n * 100) \div size
         /\ n = size => Percent(n, size) = 100
<1>1. n \in Nat /\ n <= MaxExact /\ n * 100 >= 0
  BY SMT DEF MaxExact
<1>2. Times100(n) = n * 100
  BY <1>1, Times100Exact, SMT
<1>3. Percent(n, size) = (n * 100) \div size
  BY <1>1, <1>2, SMT DEF Percent, Quotient
<1>4. (size * 100) \div size = 100
  BY SMT
<1> QED
  BY <1>3, <1>4, SMT

LEMMA PercentRange ==
  ASSUME NEW n \in Nat, NEW size \in Nat \ {0}
  PROVE  Int32(Percent(n, size)) /\ Percent(n, size) \in Int
<1> DEFINE a == Times100(n)
<1>1. a \in Int /\ -2147483648 <= a /\ a <= 2147483647
  BY Times100Range, SMT
<1> HIDE DEF a
<1>2. /\ Quotient(a, size) \in Int
      /\ -2147483648 <= Quotient(a, size) /\ Quotient(a, size) <= 2147483647
  <2>1. CASE a >= 0
    <3>1. a \in Nat
      BY <1>1, <2>1, SMT
    <3>2. a \div size \in 0..a
      BY <3>1, QuotientBounds, SMT
    <3>3. Quotient(a, size) = a \div size
      BY <2>1, SMT DEF Quotient
    <3> QED
      BY <1>1, <3>2, <3>3, SMT
  <2>2. CASE ~(a >= 0) /\ a > -size
    BY <2>2, SMT DEF Quotient
  <2>3. CASE ~(a >= 0) /\ ~(a > -size)
    <3> DEFINE c == -(a + size)
    <3>1. c \in Nat /\ c <= -(a + 1)
      BY <1>1, <2>3, SMT
    <3> HIDE DEF c
    <3>2. c \div size \in 0..c
      BY <3>1, QuotientBounds, SMT
    <3>3. Quotient(a, size) = -1 - (c \div size)
      BY <2>3, SMT DEF Quotient, c
    <3> QED
      BY <1>1, <3>1, <3>2, <3>3, SMT
  <2> QED
    BY <2>1, <2>2, <2>3, SMT
<1>3. -2^30 - 2^30 = -2147483648 /\ 2^30 - 1 + 2^30 = 2147483647
  <2>1. 2^30 = 1073741824
    BY SMT
  <2> QED
    BY <2>1, SMT
<1> QED
  BY <1>2, <1>3, SMT DEF Percent, a, Int32

-----------------------------------------------------------------------------
(* The fields of packets and answers.                                      *)

Sent == {HEADER, DATA, VERIFY}

\* The command bytes, and what each side makes of them.
LEMMA CommandByte ==
  ASSUME NEW c \in Sent
  PROVE  /\ amOtaCmd2Byte(c) \in Bytes
         /\ eAmotaCommand[amOtaCmd2Byte(c)] = c
         /\ byte2OtaCmd(amOtaCmd2Byte(c)) = c
         /\ c \in AmotaCmd /\ c # UNKNOWN /\ UNKNOWN \in AmotaCmd
<1>1. CASE c = HEADER
  BY <1>1, SMT DEF amOtaCmd2Byte, byte2OtaCmd, eAmotaCommand, Bytes, AmotaCmd,
                   HEADER, DATA, VERIFY, RESET, MAX, UNKNOWN
<1>2. CASE c = DATA
  BY <1>2, SMT DEF amOtaCmd2Byte, byte2OtaCmd, eAmotaCommand, Bytes, AmotaCmd,
                   HEADER, DATA, VERIFY, RESET, MAX, UNKNOWN
<1>3. CASE c = VERIFY
  BY <1>3, SMT DEF amOtaCmd2Byte, byte2OtaCmd, eAmotaCommand, Bytes, AmotaCmd,
                   HEADER, DATA, VERIFY, RESET, MAX, UNKNOWN
<1> QED
  BY <1>1, <1>2, <1>3 DEF Sent

LEMMA LengthFieldBytes ==
  ASSUME NEW n \in Nat, n + 4 < 2^16
  PROVE  /\ LengthField(n) \in Seq(Bytes) /\ Len(LengthField(n)) = 2
         /\ LengthField(n)[1] + 256 * LengthField(n)[2] = n + 4
<1> DEFINE low == (n + 4) % 256
           high == ((n + 4) \div 256) % 256
<1>1. CrcSizeInPkt = 4
  BY BytesAssumption
<1>2. LengthField(n) = <<low, high>>
  BY <1>1, SMT DEF LengthField
<1>3. low \in Bytes /\ high \in Bytes /\ low + 256 * high = n + 4
  <2>1. n + 4 < 65536
    BY SMT
  <2> QED
    BY <2>1, SMT DEF Bytes
<1> HIDE DEF low, high
<1> QED
  BY <1>2, <1>3, SMT

\* Two sequences joined, and a part of a sequence.
LEMMA Joined ==
  ASSUME NEW s \in Seq(Bytes), NEW t \in Seq(Bytes)
  PROVE  /\ s \o t \in Seq(Bytes) /\ Len(s \o t) = Len(s) + Len(t)
         /\ Len(s) \in Nat /\ Len(t) \in Nat
         /\ \A j \in 1..Len(s) : (s \o t)[j] = s[j]
         /\ \A j \in 1..Len(t) : (s \o t)[Len(s) + j] = t[j]
<1>1. s \o t \in Seq(Bytes) /\ Len(s \o t) = Len(s) + Len(t)
  BY ConcatProperties, SMT
<1>2. Len(s) \in Nat /\ Len(t) \in Nat
  BY LenProperties, SMT
<1>3. \A j \in 1..Len(s) + Len(t) :
        (s \o t)[j] = IF j <= Len(s) THEN s[j] ELSE t[j - Len(s)]
  BY ConcatProperties, SMT
<1>4. ASSUME NEW j \in 1..Len(s)
      PROVE  (s \o t)[j] = s[j]
  BY <1>2, <1>3, SMT
<1>5. ASSUME NEW j \in 1..Len(t)
      PROVE  (s \o t)[Len(s) + j] = t[j]
  <2>1. /\ Len(s) + j \in 1..Len(s) + Len(t)
        /\ ~(Len(s) + j <= Len(s)) /\ (Len(s) + j) - Len(s) = j
    BY <1>2, SMT
  <2> QED
    BY <1>3, <2>1, Zenon
<1> QED
  BY <1>1, <1>2, <1>4, <1>5

LEMMA PartIs ==
  ASSUME NEW s \in Seq(Bytes), NEW m \in Nat, NEW t \in Seq(Bytes),
         m + Len(t) <= Len(s), \A j \in 1..Len(t) : s[m + j] = t[j]
  PROVE  SubSeq(s, m + 1, m + Len(t)) = t
<1> DEFINE n == m + Len(t)
           u == SubSeq(s, m + 1, n)
<1>1. /\ Len(t) \in Nat /\ Len(s) \in Nat /\ n \in Int /\ m + 1 \in Int
      /\ n - (m + 1) + 1 = Len(t)
      /\ (m + 1 <= n) <=> Len(t) > 0
  BY LenProperties, SMT
<1>2. \A j \in (m + 1)..n : s[j] \in Bytes
  <2>1. s \in [1..Len(s) -> Bytes]
    BY LenProperties, Zenon
  <2>2. \A j \in (m + 1)..n : j \in 1..Len(s)
    BY <1>1, SMT
  <2> QED
    BY <2>1, <2>2, Zenon
<1> HIDE DEF n
<1>3. /\ u \in Seq(Bytes)
      /\ Len(u) = IF m + 1 <= n THEN n - (m + 1) + 1 ELSE 0
      /\ \A j \in 1..n - (m + 1) + 1 : u[j] = s[(m + 1) + j - 1]
  <2> DEFINE k == m + 1
  <2>1. k \in Int /\ n \in Int /\ \A j \in k..n : s[j] \in Bytes
    BY <1>1, <1>2
  <2> HIDE DEF k
  <2>2. /\ SubSeq(s, k, n) \in Seq(Bytes)
        /\ Len(SubSeq(s, k, n)) = IF k <= n THEN n - k + 1 ELSE 0
        /\ \A j \in 1..n - k + 1 : SubSeq(s, k, n)[j] = s[k + j - 1]
    BY <2>1, SubSeqProperties, SMT
  <2> QED
    BY <2>2, Zenon DEF k
<1> HIDE DEF u
<1>4. Len(u) = Len(t)
  BY <1>1, <1>3, SMT
<1>5. ASSUME NEW j \in 1..Len(t)
      PROVE  u[j] = t[j]
  <2>1. j \in 1..n - (m + 1) + 1 /\ (m + 1) + j - 1 = m + j
    BY <1>1, SMT
  <2>2. u[j] = s[m + j]
    BY <1>3, <2>1, Zenon
  <2> QED
    BY <2>2
<1>6. u = t
  BY <1>3, <1>4, <1>5, SeqEqual, SMT
<1> QED
  BY <1>6 DEF u, n

\* The parts of a packet, put together and taken apart.
LEMMA TwoFields ==
  ASSUME NEW l \in Seq(Bytes), NEW e \in Seq(Bytes), Len(l) = 2, Len(e) = 1
  PROVE /\ l \o e \in Seq(Bytes) /\ Len(l \o e) = 3
        /\ (l \o e)[1] = l[1] /\ (l \o e)[2] = l[2] /\ (l \o e)[3] = e[1]
<1>1. /\ l \o e \in Seq(Bytes) /\ Len(l \o e) = Len(l) + Len(e)
      /\ \A j \in 1..Len(l) : (l \o e)[j] = l[j]
      /\ \A j \in 1..Len(e) : (l \o e)[Len(l) + j] = e[j]
  BY Joined, Zenon
<1>2. 2 + 1 = 3 /\ 1 \in 1..2 /\ 2 \in 1..2 /\ 1 \in 1..1
  BY SMT
<1> QED
  BY <1>1, <1>2, Zenon

LEMMA ThreeFields ==
  ASSUME NEW h \in Seq(Bytes), NEW d \in Seq(Bytes), NEW k \in Seq(Bytes),
         Len(h) = 3, Len(k) = 4
  PROVE LET p == (h \o d) \o k IN
        /\ p \in Seq(Bytes) /\ Len(p) = 7 + Len(d)
        /\ \A j \in 1..3 : p[j] = h[j]
        /\ \A j \in 1..Len(d) : p[3 + j] = d[j]
        /\ \A j \in 1..4 : p[(3 + Len(d)) + j] = k[j]
<1> DEFINE p == (h \o d) \o k
<1> DEFINE b == h \o d
<1>1. /\ b \in Seq(Bytes) /\ Len(b) = Len(h) + Len(d)
      /\ Len(d) \in Nat
      /\ \A j \in 1..Len(h) : b[j] = h[j]
      /\ \A j \in 1..Len(d) : b[Len(h) + j] = d[j]
  BY Joined, Zenon
<1> HIDE DEF b, p
<1>2. /\ b \o k \in Seq(Bytes) /\ Len(b \o k) = Len(b) + Len(k)
      /\ \A j \in 1..Len(b) : (b \o k)[j] = b[j]
      /\ \A j \in 1..Len(k) : (b \o k)[Len(b) + j] = k[j]
  BY <1>1, Joined, Zenon
<1>3. p = b \o k
  BY DEF b, p
<1>4. /\ p \in Seq(Bytes) /\ Len(p) = (3 + Len(d)) + 4
      /\ \A j \in 1..(3 + Len(d)) : p[j] = b[j]
      /\ \A j \in 1..4 : p[(3 + Len(d)) + j] = k[j]
  BY <1>1, <1>2, <1>3, Zenon
<1>5. \A j \in 1..3 : j \in 1..(3 + Len(d))
  BY <1>1, SMT
<1>6. \A j \in 1..Len(d) : 3 + j \in 1..(3 + Len(d))
  BY <1>1, SMT
<1>7. \A j \in 1..3 : p[j] = h[j]
  BY <1>1, <1>4, <1>5, Zenon
<1>8. \A j \in 1..Len(d) : p[3 + j] = d[j]
  <2> SUFFICES ASSUME NEW j \in 1..Len(d) PROVE p[3 + j] = d[j]
    OBVIOUS
  <2>1. p[3 + j] = b[3 + j]
    BY <1>4, <1>6, Zenon
  <2>2. b[3 + j] = d[j]
    BY <1>1, Zenon
  <2> QED
    BY <2>1, <2>2, Zenon
<1>9. (3 + Len(d)) + 4 = 7 + Len(d)
  BY <1>1, SMT
<1> QED
  BY <1>4, <1>7, <1>8, <1>9, Zenon DEF p

LEMMA PartsOfPacket ==
  ASSUME NEW d \in Seq(Bytes), NEW k \in Seq(Bytes), Len(k) = 4,
         NEW p \in Seq(Bytes), Len(p) = 7 + Len(d),
         \A j \in 1..Len(d) : p[3 + j] = d[j],
         \A j \in 1..4 : p[(3 + Len(d)) + j] = k[j]
  PROVE /\ SubSeq(p, 4, 3 + Len(d)) = d
        /\ SubSeq(p, 4 + Len(d), 7 + Len(d)) = k
<1>0. Len(d) \in Nat
  BY LenProperties, SMT
<1>1. SubSeq(p, 3 + 1, 3 + Len(d)) = d
  <2>1. 3 \in Nat /\ 3 + Len(d) <= Len(p)
    BY <1>0, SMT
  <2> QED
    BY <2>1, PartIs, SMT
<1>2. SubSeq(p, (3 + Len(d)) + 1, (3 + Len(d)) + Len(k)) = k
  <2>1. 3 + Len(d) \in Nat /\ (3 + Len(d)) + Len(k) <= Len(p)
    BY <1>0, SMT
  <2> QED
    BY <2>1, PartIs, SMT
<1>3. /\ 3 + 1 = 4 /\ (3 + Len(d)) + 1 = 4 + Len(d)
      /\ (3 + Len(d)) + Len(k) = 7 + Len(d)
  BY <1>0, SMT
<1> QED
  BY <1>1, <1>2, <1>3, Zenon

\* The format of amOta.h finds every field of the packet of sendOtaCmd.
LEMMA PacketFields ==
  ASSUME NEW d \in Seq(Bytes), Len(d) + 4 < 2^16, NEW c \in Sent,
         NEW k \in Seq(Bytes), Len(k) = 4
  PROVE  LET p == LengthField(Len(d)) \o <<amOtaCmd2Byte(c)>> \o d \o k IN
         /\ p \in Seq(Bytes) /\ p # <<>>
         /\ IsPacket(p)
         /\ PKG_CMD(p) = amOtaCmd2Byte(c)
         /\ PKG_Data(p) = d
         /\ PKG_CS(p) = k
<1> DEFINE l == LengthField(Len(d))
           e == <<amOtaCmd2Byte(c)>>
           h == l \o e
           p == h \o d \o k
<1>1. Len(d) \in Nat
  BY LenProperties, SMT
<1>2. /\ l \in Seq(Bytes) /\ Len(l) = 2
      /\ l[1] + 256 * l[2] = Len(d) + 4
  BY <1>1, LengthFieldBytes, SMT
<1>3. e \in Seq(Bytes) /\ Len(e) = 1 /\ e[1] = amOtaCmd2Byte(c)
  BY CommandByte, SMT
<1>4. p = (h \o d) \o k
  OBVIOUS
<1> HIDE DEF l, e
<1>5. /\ h \in Seq(Bytes) /\ Len(h) = 3
      /\ h[1] = l[1] /\ h[2] = l[2] /\ h[3] = amOtaCmd2Byte(c)
  BY <1>2, <1>3, TwoFields, Zenon
<1> HIDE DEF h, p
<1>8. /\ p \in Seq(Bytes) /\ Len(p) = 7 + Len(d)
      /\ \A j \in 1..3 : p[j] = h[j]
      /\ \A j \in 1..Len(d) : p[3 + j] = d[j]
      /\ \A j \in 1..4 : p[(3 + Len(d)) + j] = k[j]
  <2> DEFINE q == (h \o d) \o k
  <2>1. /\ q \in Seq(Bytes) /\ Len(q) = 7 + Len(d)
        /\ \A j \in 1..3 : q[j] = h[j]
        /\ \A j \in 1..Len(d) : q[3 + j] = d[j]
        /\ \A j \in 1..4 : q[(3 + Len(d)) + j] = k[j]
    BY <1>5, ThreeFields, Zenon
  <2>2. p = q
    BY <1>4
  <2> HIDE DEF q
  <2> QED
    BY <2>1, <2>2
<1>9. p[1] = l[1] /\ p[2] = l[2] /\ p[3] = amOtaCmd2Byte(c)
  <2>1. 1 \in 1..3 /\ 2 \in 1..3 /\ 3 \in 1..3
    BY SMT
  <2> QED
    BY <1>5, <1>8, <2>1, Zenon
<1>10. IsPacket(p)
  <2>1. Len(p) >= 2 + 1 + 4
    BY <1>1, <1>8, SMT
  <2>2. Len(p) = 2 + 1 + (p[1] + 256 * p[2])
    <3>1. p[1] + 256 * p[2] = Len(d) + 4
      BY <1>2, <1>9
    <3> QED
      BY <1>1, <1>8, <3>1, SMT
  <2> QED
    BY <2>1, <2>2
       DEF IsPacket, PKG_LENG, AMOTA_LENGTH_SIZE, AMOTA_CMD_SIZE, AMOTA_CS_SIZE
<1>11. PKG_CMD(p) = amOtaCmd2Byte(c)
  <2>1. 2 + 1 = 3
    BY SMT
  <2> QED
    BY <1>9, <2>1 DEF PKG_CMD, AMOTA_LENGTH_SIZE
<1>12. PKG_Data(p) = d
  <2>1. SubSeq(p, 4, 3 + Len(d)) = d
    BY <1>8, PartsOfPacket, Zenon
  <2>2. 2 + 1 + 1 = 4 /\ Len(p) - 4 = 3 + Len(d)
    BY <1>1, <1>8, SMT
  <2> QED
    BY <2>1, <2>2, Zenon
       DEF PKG_Data, AMOTA_LENGTH_SIZE, AMOTA_CMD_SIZE, AMOTA_CS_SIZE
<1>13. PKG_CS(p) = k
  <2>1. SubSeq(p, 4 + Len(d), 7 + Len(d)) = k
    BY <1>8, PartsOfPacket, Zenon
  <2>2. Len(p) - 4 + 1 = 4 + Len(d) /\ Len(p) = 7 + Len(d)
    BY <1>1, <1>8, SMT
  <2> QED
    BY <2>1, <2>2, Zenon DEF PKG_CS, AMOTA_CS_SIZE
<1>14. p # <<>>
  BY <1>1, <1>8, SMT
<1> QED
  BY <1>8, <1>10, <1>11, <1>12, <1>13, <1>14 DEF p, h, l, e

\* The fields of the answer to a command.
LEMMA AnswerFields ==
  ASSUME NEW c \in Sent, NEW s \in Bytes, NEW n \in Seq(Bytes), Len(n) = 4
  PROVE  LET r == CmdRsp(amOtaCmd2Byte(c), s, n) IN
         /\ r \in Seq(Bytes)
         /\ r[3] = amOtaCmd2Byte(c) /\ r[4] = s
         /\ c = HEADER => SubSeq(r, 5, 8) = n
<1> DEFINE a == amOtaCmd2Byte(c)
           f == <<5, 0, a, s>>
           r == CmdRsp(a, s, n)
<1>1. a \in Bytes /\ eAmotaCommand[a] = c
  BY CommandByte, Zenon
<1> HIDE DEF a
<1>2. f \in Seq(Bytes) /\ Len(f) = 4 /\ f[3] = a /\ f[4] = s
  <2>1. 5 \in Bytes /\ 0 \in Bytes
    BY SMT DEF Bytes
  <2> QED
    BY <1>1, <2>1, SMT
<1> HIDE DEF f, r
<1> DEFINE Fields == /\ r \in Seq(Bytes) /\ r[3] = a /\ r[4] = s
                     /\ c = HEADER => SubSeq(r, 5, 8) = n
<1>3. ASSUME c \in {HEADER, DATA} PROVE Fields
  <2>1. r = f \o n
    BY <1>1, <1>3 DEF CmdRsp, r, f
  <2>2. /\ f \o n \in Seq(Bytes) /\ Len(f \o n) = Len(f) + Len(n)
        /\ \A j \in 1..Len(f) : (f \o n)[j] = f[j]
        /\ \A j \in 1..Len(n) : (f \o n)[Len(f) + j] = n[j]
    BY <1>2, Joined, Zenon
  <2>3. 4 + 4 = 8 /\ 4 + 1 = 5 /\ 3 \in 1..4 /\ 4 \in 1..4
    BY SMT
  <2>4. r \in Seq(Bytes) /\ r[3] = a /\ r[4] = s
    BY <1>2, <2>1, <2>2, <2>3
  <2>5. \A j \in 1..4 : r[4 + j] = n[j]
    BY <1>2, <2>1, <2>2, Zenon
  <2>6. 4 \in Nat /\ 4 + Len(n) <= Len(r)
    BY <1>2, <2>1, <2>2, SMT
  <2>7. SubSeq(r, 4 + 1, 4 + 4) = n
    BY <2>4, <2>5, <2>6, PartIs, Zenon
  <2> QED
    BY <2>3, <2>4, <2>7, Zenon
<1>4. ASSUME c \notin {HEADER, DATA} PROVE Fields
  <2>1. r = <<1, 0, a, s>> /\ c # HEADER
    BY <1>1, <1>4 DEF CmdRsp, r
  <2>2. 1 \in Bytes /\ 0 \in Bytes
    BY SMT DEF Bytes
  <2>3. r \in Seq(Bytes) /\ r[3] = a /\ r[4] = s
    BY <1>1, <2>1, <2>2, SMT
  <2> QED
    BY <2>1, <2>3
<1> QED
  BY <1>3, <1>4 DEF r, a

-----------------------------------------------------------------------------
(* The calculation by the table is the one by the polynomial.  Division is *)
(* linear, so eight divisions of a word are those of its lowest byte, for  *)
(* which the table has the remainder (TableAssumption), and the shift of   *)
(* the rest.                                                               *)

LEMMA XorLaws ==
  /\ \A u, v : Xor(u, v) = Xor(v, u)
  /\ \A u, v, w : Xor(Xor(u, v), w) = Xor(u, Xor(v, w))
  /\ \A u : Xor(u, u) = {} /\ Xor({}, u) = u /\ Xor(u, {}) = u
  /\ \A u, v, S : u \subseteq S /\ v \subseteq S => Xor(u, v) \subseteq S
<1>1. \A u, v : Xor(u, v) = Xor(v, u)
  BY SMT DEF Xor
<1>2. ASSUME NEW u, NEW v, NEW w
      PROVE  Xor(Xor(u, v), w) = Xor(u, Xor(v, w))
  BY SMT DEF Xor
<1>3. \A u : Xor(u, u) = {} /\ Xor({}, u) = u /\ Xor(u, {}) = u
  BY SMT DEF Xor
<1>4. \A u, v, S : u \subseteq S /\ v \subseteq S => Xor(u, v) \subseteq S
  BY SMT DEF Xor
<1> QED
  BY <1>1, <1>2, <1>3, <1>4

LEMMA XorWithin ==
  ASSUME NEW u, u \subseteq 0..31, NEW v, v \subseteq 0..31
  PROVE  Xor(u, v) \subseteq 0..31
  BY DEF Xor

LEMMA UshrOf ==
  ASSUME NEW w, w \subseteq Nat, NEW n \in Nat
  PROVE  /\ Ushr(w, n) \subseteq Nat
         /\ \A j \in Nat : j \in Ushr(w, n) <=> j + n \in w
<1>1. ASSUME NEW j \in Nat, j + n \in w
      PROVE  j \in Ushr(w, n)
  <2>1. j + n >= n /\ (j + n) - n = j
    BY SMT
  <2> QED
    BY <1>1, <2>1, SMT DEF Ushr
<1>2. ASSUME NEW j \in Ushr(w, n)
      PROVE  j \in Nat /\ j + n \in w
  <2>1. PICK k \in w : k >= n /\ j = k - n
    BY SMT DEF Ushr
  <2>2. k \in Nat /\ (k - n) + n = k
    BY SMT
  <2> QED
    BY <2>1, <2>2, SMT
<1> QED
  BY <1>1, <1>2, SMT

LEMMA UshrLinear ==
  ASSUME NEW u, u \subseteq Nat, NEW v, v \subseteq Nat, NEW n \in Nat
  PROVE  Ushr(Xor(u, v), n) = Xor(Ushr(u, n), Ushr(v, n))
<1>1. Xor(u, v) \subseteq Nat
  BY XorLaws
<1>2. /\ Ushr(u, n) \subseteq Nat /\ Ushr(v, n) \subseteq Nat
      /\ Ushr(Xor(u, v), n) \subseteq Nat
  BY <1>1, UshrOf
<1>3. ASSUME NEW j \in Nat
      PROVE  j \in Ushr(Xor(u, v), n) <=> j \in Xor(Ushr(u, n), Ushr(v, n))
  <2>1. /\ j \in Ushr(u, n) <=> j + n \in u
        /\ j \in Ushr(v, n) <=> j + n \in v
        /\ j \in Ushr(Xor(u, v), n) <=> j + n \in Xor(u, v)
    BY <1>1, UshrOf
  <2> QED
    BY <2>1, Zenon DEF Xor
<1>4. Xor(Ushr(u, n), Ushr(v, n)) \subseteq Nat
  BY <1>2, XorLaws
<1> QED
  BY <1>2, <1>3, <1>4

LEMMA UshrTwice ==
  ASSUME NEW w, w \subseteq Nat, NEW m \in Nat, NEW n \in Nat
  PROVE  Ushr(Ushr(w, m), n) = Ushr(w, m + n)
<1>1. m + n \in Nat /\ Ushr(w, m) \subseteq Nat
  <2>1. m + n \in Nat
    BY SMT
  <2>2. Ushr(w, m) \subseteq Nat
    BY UshrOf, Zenon
  <2> QED
    BY <2>1, <2>2
<1>2. Ushr(Ushr(w, m), n) \subseteq Nat /\ Ushr(w, m + n) \subseteq Nat
  BY <1>1, UshrOf
<1>3. ASSUME NEW j \in Nat
      PROVE  j \in Ushr(Ushr(w, m), n) <=> j \in Ushr(w, m + n)
  <2>1. j + n \in Nat /\ (j + n) + m = j + (m + n)
    BY SMT
  <2>2. /\ j \in Ushr(Ushr(w, m), n) <=> j + n \in Ushr(w, m)
        /\ j + n \in Ushr(w, m) <=> (j + n) + m \in w
        /\ j \in Ushr(w, m + n) <=> j + (m + n) \in w
    BY <1>1, <2>1, UshrOf, Zenon
  <2> QED
    BY <2>1, <2>2, Zenon
<1> QED
  BY <1>2, <1>3

\* One division is linear, and a shift of what has no lowest bit.
LEMMA DivisionLinear ==
  ASSUME NEW u, u \subseteq 0..31, NEW v, v \subseteq 0..31
  PROVE  /\ PolynomialBit(u) \subseteq 0..31
         /\ PolynomialBit(Xor(u, v)) = Xor(PolynomialBit(u), PolynomialBit(v))
<1>1. u \subseteq Nat /\ v \subseteq Nat
  BY SMT
<1>2. Polynomial \subseteq 0..31
  BY WordIn, SMT DEF Polynomial
<1>3. Ushr(u, 1) \subseteq 0..31
  BY SMT DEF Ushr
<1>4. PolynomialBit(u) \subseteq 0..31
  <2>1. Xor(Ushr(u, 1), Polynomial) \subseteq 0..31
    BY <1>2, <1>3, XorWithin, Zenon
  <2> QED
    BY <1>3, <2>1, Zenon DEF PolynomialBit
<1> DEFINE a == Ushr(u, 1)
           b == Ushr(v, 1)
           P == Polynomial
<1>5. Ushr(Xor(u, v), 1) = Xor(a, b)
  BY <1>1, 1 \in Nat, UshrLinear, Zenon
<1>6. 0 \in Xor(u, v) <=> ~(0 \in u <=> 0 \in v)
  BY Zenon DEF Xor
<1>7. /\ PolynomialBit(u) = IF 0 \in u THEN Xor(a, P) ELSE a
      /\ PolynomialBit(v) = IF 0 \in v THEN Xor(b, P) ELSE b
      /\ PolynomialBit(Xor(u, v)) =
           IF 0 \in Xor(u, v) THEN Xor(Xor(a, b), P) ELSE Xor(a, b)
  BY <1>5, Zenon DEF PolynomialBit
<1> HIDE DEF a, b, P
<1>8. /\ Xor(Xor(a, b), P) = Xor(Xor(a, P), b)
      /\ Xor(Xor(a, b), P) = Xor(a, Xor(b, P))
      /\ Xor(a, b) = Xor(Xor(a, P), Xor(b, P))
  BY SMT DEF Xor
<1>9. PolynomialBit(Xor(u, v)) = Xor(PolynomialBit(u), PolynomialBit(v))
  <2>1. CASE 0 \in u /\ 0 \in v
    BY <1>6, <1>7, <1>8, <2>1, Zenon
  <2>2. CASE 0 \in u /\ 0 \notin v
    BY <1>6, <1>7, <1>8, <2>2, Zenon
  <2>3. CASE 0 \notin u /\ 0 \in v
    BY <1>6, <1>7, <1>8, <2>3, Zenon
  <2>4. CASE 0 \notin u /\ 0 \notin v
    BY <1>6, <1>7, <1>8, <2>4, Zenon
  <2> QED
    BY <2>1, <2>2, <2>3, <2>4, Zenon
<1> QED
  BY <1>4, <1>9

\* Eight divisions of a word.
Divide(w) ==
  LET two(v) == PolynomialBit(PolynomialBit(v))
      four(v) == two(two(v))
  IN four(four(w))

LEMMA DivideLinear ==
  ASSUME NEW u, u \subseteq 0..31, NEW v, v \subseteq 0..31
  PROVE  Divide(Xor(u, v)) = Xor(Divide(u), Divide(v))
<1> DEFINE two(w) == PolynomialBit(PolynomialBit(w))
           four(w) == two(two(w))
<1>1. ASSUME NEW w, w \subseteq 0..31, NEW x, x \subseteq 0..31
      PROVE  two(w) \subseteq 0..31 /\ two(Xor(w, x)) = Xor(two(w), two(x))
  <2>1. /\ PolynomialBit(w) \subseteq 0..31 /\ PolynomialBit(x) \subseteq 0..31
        /\ PolynomialBit(Xor(w, x)) = Xor(PolynomialBit(w), PolynomialBit(x))
    BY <1>1, DivisionLinear, Zenon
  <2> QED
    BY <2>1, DivisionLinear, Zenon
<1> HIDE DEF two
<1>2. ASSUME NEW w, w \subseteq 0..31, NEW x, x \subseteq 0..31
      PROVE  four(w) \subseteq 0..31 /\ four(Xor(w, x)) = Xor(four(w), four(x))
  <2>1. /\ two(w) \subseteq 0..31 /\ two(x) \subseteq 0..31
        /\ two(Xor(w, x)) = Xor(two(w), two(x))
    BY <1>1, <1>2, Zenon
  <2>2. /\ two(two(w)) \subseteq 0..31
        /\ two(Xor(two(w), two(x))) = Xor(two(two(w)), two(two(x)))
    BY <1>1, <2>1, Zenon
  <2> QED
    BY <2>1, <2>2, Zenon
<1> HIDE DEF four
<1>3. four(four(Xor(u, v))) = Xor(four(four(u)), four(four(v)))
  <2>1. /\ four(u) \subseteq 0..31 /\ four(v) \subseteq 0..31
        /\ four(Xor(u, v)) = Xor(four(u), four(v))
    BY <1>2, Zenon
  <2>2. four(Xor(four(u), four(v))) = Xor(four(four(u)), four(four(v)))
    BY <1>2, <2>1, Zenon
  <2> QED
    BY <2>1, <2>2, Zenon
<1> QED
  BY <1>3, Zenon DEF Divide, two, four

LEMMA DivideShifts ==
  ASSUME NEW w, w \subseteq 8..31
  PROVE  Divide(w) = Ushr(w, 8)
<1>0. w \subseteq Nat
  BY SMT
<1>1. ASSUME NEW n \in 0..7
      PROVE  PolynomialBit(Ushr(w, n)) = Ushr(w, n + 1)
  <2>1. 0 \notin Ushr(w, n)
    BY SMT DEF Ushr
  <2>2. Ushr(Ushr(w, n), 1) = Ushr(w, n + 1)
    BY <1>0, n \in Nat, 1 \in Nat, UshrTwice, Zenon
  <2> QED
    BY <2>1, <2>2, Zenon DEF PolynomialBit
<1>2. Ushr(w, 0) = w
  <2>1. /\ Ushr(w, 0) \subseteq Nat
        /\ \A j \in Nat : j \in Ushr(w, 0) <=> j + 0 \in w
    BY <1>0, 0 \in Nat, UshrOf, Zenon
  <2>2. \A j \in Nat : j + 0 = j
    BY SMT
  <2> QED
    BY <1>0, <2>1, <2>2, Zenon
<1> DEFINE s(n) == Ushr(w, n)
<1>3. /\ PolynomialBit(s(0)) = s(1) /\ PolynomialBit(s(1)) = s(2)
      /\ PolynomialBit(s(2)) = s(3) /\ PolynomialBit(s(3)) = s(4)
      /\ PolynomialBit(s(4)) = s(5) /\ PolynomialBit(s(5)) = s(6)
      /\ PolynomialBit(s(6)) = s(7) /\ PolynomialBit(s(7)) = s(8)
  BY <1>1, SMT
<1> HIDE DEF s
<1>4. Divide(s(0)) = s(8)
  BY <1>3, Zenon DEF Divide
<1> QED
  BY <1>2, <1>4, Zenon DEF s

LEMMA StepsAgree ==
  ASSUME NEW w, w \subseteq 0..31, NEW byte \in Bytes
  PROVE  TableStep(w, byte) = PolynomialStep(w, byte)
<1> DEFINE x == Xor(w, Word(byte))
           n == ToByte(x, 0)
           low == {k \in x : k < 8}
           high == {k \in x : k >= 8}
<1>1. Word(byte) \subseteq 0..7
  BY WordOfByte, SMT
<1>2. x \subseteq 0..31
  <2>1. Word(byte) \subseteq 0..31
    BY WordIn, Zenon
  <2> QED
    BY <2>1, XorWithin, Zenon
<1>3. n \in Bytes /\ \A k \in 0..7 : Digit(n, k) <=> 8 * 0 + k \in x
  BY ByteDigits, 0 \in Nat DEF Digit
<1>4. Word(n) = low
  <2>1. Word(n) = {k \in 0..7 : Digit(n, k)}
    BY <1>3, WordOfByte DEF Digit
  <2>2. \A k \in 0..7 : 8 * 0 + k = k
    BY SMT
  <2>3. \A k \in 0..7 : Digit(n, k) <=> k \in x
    BY <1>3, <2>2, Zenon
  <2> HIDE DEF n, x
  <2>4. \A k \in 0..31 : k < 8 <=> k \in 0..7
    BY SMT
  <2> QED
    BY <1>2, <2>1, <2>3, <2>4
<1>5. low \subseteq 0..31 /\ high \subseteq 0..31 /\ high \subseteq 8..31
  BY <1>2, SMT
<1>6. x = Xor(low, high)
  BY <1>2, SMT DEF Xor
<1>7. Ushr(high, 8) = Ushr(w, 8)
  <2>1. high = {b \in w : b >= 8}
    BY <1>1, SMT DEF Xor
  <2>2. {b \in high : b >= 8} = {b \in w : b >= 8}
    BY <2>1
  <2> HIDE DEF high
  <2> QED
    BY <2>2, Zenon DEF Ushr
<1>8. Word(crc32Table[1 + n]) = Divide(Word(n))
  <2>1. Word(crc32Table[n + 1]) = PolynomialStep({}, n)
    BY <1>3, TableAssumption, Zenon DEF Bytes
  <2>2. n + 1 = 1 + n
    BY <1>3, SMT DEF Bytes
  <2>3. Xor({}, Word(n)) = Word(n)
    BY XorLaws, Zenon
  <2> HIDE DEF n
  <2> QED
    BY <2>1, <2>2, <2>3, Zenon DEF PolynomialStep, Divide
<1>9. TableStep(w, byte) = Xor(Word(crc32Table[1 + n]), Ushr(w, 8))
  BY DEF TableStep
<1>10. PolynomialStep(w, byte) = Divide(x)
  BY DEF PolynomialStep, Divide
<1> HIDE DEF x, n, low, high
<1>11. Divide(x) = Xor(Divide(low), Divide(high))
  BY <1>5, <1>6, DivideLinear, Zenon
<1>12. Divide(high) = Ushr(w, 8)
  BY <1>5, <1>7, DivideShifts, Zenon
<1> QED
  BY <1>4, <1>8, <1>9, <1>10, <1>11, <1>12, Zenon

-----------------------------------------------------------------------------
(* The inductive invariant: an exchange holds one buffer or one header,    *)
(* and what its packet, its answer and its counters are follows from it    *)
(* and from the point the exchange has reached.                            *)

Exchange ==
  /\ pc \in {"sendFwHeader", "sendOtaCmd", "sent", "answered", "stopped",
             "sendFwData", "done"}
  /\ cmd \in Sent
  /\ pc \in {"sendFwHeader", "sendFwData"} => cmd = HEADER
  /\ data \in Seq(Bytes) /\ Len(data) <= FwPacketSize
  /\ counter \in Seq(Bytes) /\ Len(counter) = 4
  /\ cmd = HEADER =>
       /\ mdfBinLength(data) \in Seq(Bytes) /\ Len(mdfBinLength(data)) = 4
       /\ counter[4] <= mdfBinLength(data)[4]
       /\ mdfBinLength(data)[4] > 127 => counter = mdfBinLength(data)

Summed ==
  /\ i \in 0..Len(data)
  /\ crc \subseteq 0..31 /\ crc = rem
  /\ data = <<>> => rem = AllOnes

Packed ==
  packet = IF pc \in {"sendFwHeader", "sendOtaCmd"} THEN <<>>
           ELSE LengthField(Len(data)) \o <<amOtaCmd2Byte(cmd)>> \o data
                  \o (IF data = <<>> THEN <<0, 0, 0, 0>> ELSE CrcField(crc))

Answered ==
  /\ IF pc \in {"sendFwHeader", "sendOtaCmd", "sent"} THEN response = <<>>
     ELSE /\ response \in Seq(Bytes)
          /\ response[3] = amOtaCmd2Byte(cmd)
          /\ cmd = HEADER => SubSeq(response, 5, 8) = counter
  /\ heard = IF pc \in {"stopped", "sendFwData", "done"} THEN cmd ELSE UNKNOWN

Sized ==
  fileSize = IF cmd = HEADER /\ pc # "sendFwHeader"
             THEN Decode(mdfBinLength(data)) ELSE 0

\* Nothing is posted before the first turn of the loop; afterwards the loop is
\* between the resume offset and the end of the file.
Counting ==
  \/ offset = fileOffset /\ progress = 0
  \/ /\ 0 <= fileOffset /\ fileOffset < offset /\ offset <= fileSize
     /\ progress = Percent(offset, fileSize)

Counted ==
  IF cmd = HEADER /\ pc \in {"sendFwData", "done"}
  THEN /\ fileOffset = Decode(counter)
       /\ offset \in Int
       /\ Counting
       /\ pc = "done" => offset >= fileSize
  ELSE fileOffset = 0 /\ offset = 0 /\ progress = 0

BytesInv ==
  Exchange /\ Summed /\ Packed /\ Answered /\ Sized /\ Counted

-----------------------------------------------------------------------------

\* The data of a packet and the sizes of an image.
LEMMA Buffer ==
  ASSUME NEW d \in Seq(Bytes), Len(d) <= FwPacketSize
  PROVE  Len(d) \in Nat /\ Len(d) + 4 < 2^16
<1>1. Len(d) \in Nat
  BY LenProperties, SMT
<1>2. /\ FwPacketSize \in Nat /\ CrcSizeInPkt = 4
      /\ FwPacketSize + CrcSizeInPkt < 2^16
  BY SizesAssumption, BytesAssumption, SMT
<1> QED
  BY <1>1, <1>2, SMT

LEMMA FourBytes ==
  ASSUME NEW f \in [1..4 -> Bytes]
  PROVE  f \in Seq(Bytes) /\ Len(f) = 4
<1>1. ASSUME NEW n \in Nat, NEW g \in [1..n -> Bytes]
      PROVE  g \in Seq(Bytes) /\ Len(g) = n
  BY SMT
<1> QED
  BY <1>1, 4 \in Nat

\* Decode of four bytes, and its sign.
LEMMA DecodeOfSeq ==
  ASSUME NEW f \in Seq(Bytes), Len(f) = 4
  PROVE  /\ Decode(f) \in Int /\ Int32(Decode(f))
         /\ Word(Decode(f)) = FromBytes(f)
         /\ f[4] < 128 => Decode(f) >= 0
         /\ f[4] \in Bytes
<1>1. \A n \in 1..4 : f[n] \in Bytes
  <2>1. f \in [1..4 -> Bytes]
    BY LenProperties
  <2> QED
    BY <2>1
<1>2. \A n \in 0..3 : n + 1 \in 1..4
  BY SMT
<1>3. \A n \in 0..3 : f[n + 1] \in Bytes
  BY <1>1, <1>2, Zenon
<1>4. f[1] \in Bytes /\ f[2] \in Bytes /\ f[3] \in Bytes /\ f[4] \in Bytes
  BY <1>1, SMT
<1>5. Decode(f) =
        Shifted(IF f[4] < 128 THEN f[4] ELSE f[4] - 256, f[3], f[2], f[1])
  BY SMT DEF Decode, Shifted
<1>6. f[4] < 128 => Decode(f) >= 0
  BY <1>4, <1>5, IntOfBytes, SMT
<1> QED
  BY <1>3, <1>4, <1>6, WordOfDecode, SMT

\* A counter below the size is not negative.
LEMMA CounterBelowSize ==
  ASSUME NEW f \in Seq(Bytes), Len(f) = 4, NEW g \in Seq(Bytes), Len(g) = 4,
         f[4] <= g[4], g[4] > 127 => f = g, Decode(f) < Decode(g)
  PROVE  Decode(f) >= 0
<1>1. Decode(f) \in Int /\ Decode(g) \in Int /\ f[4] \in Bytes /\ g[4] \in Bytes
  BY DecodeOfSeq, SMT
<1>2. f # g
  BY <1>1, SMT
<1>3. f[4] < 128
  <2>1. ~(g[4] > 127)
    BY <1>2
  <2>2. f[4] \in Nat /\ g[4] \in Nat
    <3>1. \A n \in Bytes : n \in Nat
      BY SMT DEF Bytes
    <3> QED
      BY <1>1, <3>1, Zenon
  <2> QED
    BY <2>1, <2>2, SMT
<1> QED
  BY <1>3, DecodeOfSeq, SMT

\* The size is where mdfBinLength looks for it.
LEMMA MetaSize ==
  ASSUME NEW size \in [1..4 -> Bytes]
  PROVE  /\ Meta(size) \in Seq(Bytes) /\ Len(Meta(size)) = FwHeaderSize
         /\ mdfBinLength(Meta(size)) = size
<1> DEFINE s == Meta(size)
<1>1. FwHeaderSize \in Nat /\ 12 <= FwHeaderSize
  BY BytesAssumption, SizesAssumption, SMT
<1>2. size \in Seq(Bytes) /\ Len(size) = 4
  BY FourBytes
<1>3. ASSUME NEW k \in 1..FwHeaderSize
      PROVE  (IF k \in 9..12 THEN size[k - 8] ELSE (k * 37) % 256) \in Bytes
  BY <1>1, SMT DEF Bytes
<1>4. s \in [1..FwHeaderSize -> Bytes]
  BY <1>3 DEF Meta
<1>5. s \in Seq(Bytes) /\ Len(s) = FwHeaderSize
  BY <1>1, <1>4, SMT
<1>6. ASSUME NEW j \in 1..4
      PROVE  s[8 + j] = size[j]
  <2>1. 8 + j \in 1..FwHeaderSize /\ 8 + j \in 9..12 /\ (8 + j) - 8 = j
    BY <1>1, SMT
  <2>2. s[8 + j] = IF 8 + j \in 9..12 THEN size[(8 + j) - 8]
                   ELSE ((8 + j) * 37) % 256
    BY <2>1 DEF Meta
  <2> QED
    BY <2>1, <2>2
<1> HIDE DEF s
<1>7. /\ 8 \in Nat /\ 8 + Len(size) <= Len(s)
      /\ \A j \in 1..Len(size) : s[8 + j] = size[j]
  BY <1>1, <1>2, <1>5, <1>6, SMT
<1>8. SubSeq(s, 8 + 1, 8 + Len(size)) = size
  BY <1>2, <1>5, <1>7, PartIs, Zenon
<1>9. 8 + 1 = 9 /\ 8 + Len(size) = 12
  BY <1>2, SMT
<1>10. SubSeq(s, 9, 12) = size
  BY <1>8, <1>9
<1> QED
  BY <1>5, <1>10 DEF s, mdfBinLength

-----------------------------------------------------------------------------

LEMMA BytesInitially == Init => BytesInv
<1> SUFFICES ASSUME Init PROVE BytesInv
  OBVIOUS
<1> USE DEF Init
<1>1. /\ <<0, 0, 0, 0>> \in Seq(Bytes) /\ Len(<<0, 0, 0, 0>>) = 4
      /\ <<>> \in Seq(Bytes) /\ Len(<<>>) = 0
      /\ FwPacketSize \in Nat
  BY SMT, SizesAssumption DEF Bytes
<1>2. Exchange
  <2>1. CASE \E m \in Images :
               cmd = HEADER /\ data = Meta(m.size) /\ counter = m.counter
    <3>1. PICK m \in Images :
            cmd = HEADER /\ data = Meta(m.size) /\ counter = m.counter
      BY <2>1
    <3>2. /\ m.size \in [1..4 -> Bytes] /\ m.counter \in [1..4 -> Bytes]
          /\ m.counter[4] <= m.size[4]
          /\ m.size[4] > 127 => m.counter = m.size
          /\ FwHeaderSize <= FwPacketSize
      BY BytesAssumption
    <3>3. counter \in Seq(Bytes) /\ Len(counter) = 4
      BY <3>1, <3>2, FourBytes
    <3>4. m.size \in Seq(Bytes) /\ Len(m.size) = 4
      BY <3>2, FourBytes
    <3>5. /\ data \in Seq(Bytes) /\ Len(data) <= FwPacketSize
          /\ mdfBinLength(data) = m.size
      BY <3>1, <3>2, MetaSize
    <3>6. pc = "sendFwHeader"
      BY <3>1
    <3> QED
      BY <3>1, <3>2, <3>3, <3>4, <3>5, <3>6 DEF Exchange, Sent
  <2>2. CASE cmd = DATA /\ data \in Buffers /\ counter = <<0, 0, 0, 0>>
    <3>1. data \in Seq(Bytes) /\ Len(data) <= FwPacketSize
      BY <2>2, BytesAssumption
    <3>2. pc = "sendOtaCmd" /\ cmd # HEADER
      BY <2>2 DEF HEADER, DATA
    <3> QED
      BY <1>1, <2>2, <3>1, <3>2 DEF Exchange, Sent
  <2>3. CASE cmd = VERIFY /\ data = <<>> /\ counter = <<0, 0, 0, 0>>
    <3>1. pc = "sendOtaCmd" /\ cmd # HEADER
      BY <2>3 DEF HEADER, VERIFY
    <3> QED
      BY <1>1, <2>3, <3>1 DEF Exchange, Sent
  <2> QED
    BY <2>1, <2>2, <2>3
<1>3. Len(data) \in Nat
  BY <1>2, LenProperties DEF Exchange
<1>4. Summed
  BY <1>3, WordIn DEF Summed
<1>5. /\ pc \in {"sendFwHeader", "sendOtaCmd"}
      /\ cmd = HEADER => pc = "sendFwHeader"
  OBVIOUS
<1> QED
  BY <1>2, <1>4, <1>5 DEF BytesInv, Packed, Answered, Sized, Counted

\* What the device reads of the packet that sendOtaCmd leaves.
LEMMA PacketRead ==
  ASSUME BytesInv, pc \notin {"sendFwHeader", "sendOtaCmd"}
  PROVE  /\ packet \in Seq(Bytes) /\ packet # <<>>
         /\ IsPacket(packet)
         /\ PKG_CMD(packet) = amOtaCmd2Byte(cmd)
         /\ PKG_Data(packet) = data
         /\ FromBytes(PKG_CS(packet)) =
              Xor(IF data = <<>> THEN AllOnes ELSE crc, AllOnes)
<1> DEFINE k == IF data = <<>> THEN <<0, 0, 0, 0>> ELSE CrcField(crc)
<1>1. k \in Seq(Bytes) /\ Len(k) = 4
  <2>1. CASE data = <<>>
    BY <2>1, SMT DEF Bytes
  <2>2. CASE data # <<>>
    <3>1. CrcField(crc) \in [1..4 -> Bytes]
      BY ChecksumRead DEF BytesInv, Summed
    <3> QED
      BY <2>2, <3>1, FourBytes
  <2> QED
    BY <2>1, <2>2
<1>2. FromBytes(k) = Xor(IF data = <<>> THEN AllOnes ELSE crc, AllOnes)
  <2>1. FromBytes(CrcField(crc)) = Xor(crc, AllOnes)
    BY ChecksumRead DEF BytesInv, Summed
  <2> QED
    BY <2>1, NoChecksumRead
<1>3. packet = LengthField(Len(data)) \o <<amOtaCmd2Byte(cmd)>> \o data \o k
  BY DEF BytesInv, Packed
<1>4. data \in Seq(Bytes) /\ cmd \in Sent /\ Len(data) + 4 < 2^16
  BY Buffer DEF BytesInv, Exchange
<1> HIDE DEF k
<1> DEFINE p == LengthField(Len(data)) \o <<amOtaCmd2Byte(cmd)>> \o data \o k
<1>5. /\ p \in Seq(Bytes) /\ p # <<>>
      /\ IsPacket(p)
      /\ PKG_CMD(p) = amOtaCmd2Byte(cmd)
      /\ PKG_Data(p) = data
      /\ PKG_CS(p) = k
  BY <1>1, <1>4, PacketFields, Zenon
<1>6. packet = p
  BY <1>3
<1> HIDE DEF p
<1> QED
  BY <1>2, <1>5, <1>6

LEMMA BytesStep == BytesInv /\ [Next]_vars => BytesInv'
<1> SUFFICES ASSUME BytesInv, [Next]_vars PROVE BytesInv'
  OBVIOUS
<1> USE DEF BytesInv
<1>0. Len(data) \in Nat
  BY LenProperties DEF Exchange
<1>1. CASE sendFwHeader
  <2>1. Exchange'
    BY <1>1 DEF sendFwHeader, Exchange
  <2>2. Summed' /\ Packed' /\ Answered'
    BY <1>1 DEF sendFwHeader, Summed, Packed, Answered
  <2>3. cmd = HEADER
    BY <1>1 DEF sendFwHeader, Exchange
  <2>4. Sized'
    BY <1>1, <2>3 DEF sendFwHeader, Sized, mdfBinLength
  <2>5. Counted'
    BY <1>1 DEF sendFwHeader, Counted
  <2> QED
    BY <2>1, <2>2, <2>4, <2>5
<1>2. CASE calcCrc32
  <2>1. Exchange'
    BY <1>2 DEF calcCrc32, Exchange
  <2>2. Summed'
    <3>1. crc' \subseteq 0..31 /\ crc' = rem'
      <4>1. data[i + 1] \in Bytes
        <5>1. i + 1 \in 1..Len(data)
          BY <1>0, <1>2 DEF calcCrc32, Summed
        <5> QED
          BY <5>1, ElementOfSeq DEF Exchange
      <4>2. /\ TableStep(crc, data[i + 1]) \subseteq 0..31
            /\ TableStep(crc, data[i + 1]) = PolynomialStep(crc, data[i + 1])
        BY <4>1, StepsWithin, StepsAgree DEF Summed
      <4> QED
        BY <1>2, <4>2 DEF calcCrc32, Summed
    <3>2. i' \in 0..Len(data)
      BY <1>0, <1>2 DEF calcCrc32, Summed
    <3>3. data # <<>>
      <4>1. Len(data) # 0
        BY <1>0, <1>2 DEF calcCrc32, Summed
      <4> QED
        BY <4>1
    <3> QED
      BY <1>2, <3>1, <3>2, <3>3 DEF calcCrc32, Summed
  <2>3. Packed' /\ Answered'
    BY <1>2 DEF calcCrc32, Packed, Answered
  <2>4. Sized' /\ Counted'
    BY <1>2 DEF calcCrc32, Sized, Counted, Counting
  <2> QED
    BY <2>1, <2>2, <2>3, <2>4
<1>3. CASE sendOtaCmd
  <2>1. Exchange'
    BY <1>3 DEF sendOtaCmd, Exchange
  <2>2. Summed' /\ Packed' /\ Answered'
    BY <1>3 DEF sendOtaCmd, Summed, Packed, Answered
  <2>3. Sized' /\ Counted'
    BY <1>3 DEF sendOtaCmd, Sized, Counted, Counting
  <2> QED
    BY <2>1, <2>2, <2>3
<1>4. CASE DeviceAnswers
  <2>1. Exchange'
    BY <1>4 DEF DeviceAnswers, Exchange
  <2>2. Summed' /\ Packed'
    BY <1>4 DEF DeviceAnswers, Summed, Packed
  <2>3. Answered'
    <3>1. PICK s \in Statuses : response' = CmdRsp(PKG_CMD(packet), s, counter)
      BY <1>4 DEF DeviceAnswers
    <3>2. s \in Bytes
      BY BytesAssumption
    <3>3. PKG_CMD(packet) = amOtaCmd2Byte(cmd)
      BY <1>4, PacketRead DEF DeviceAnswers
    <3>4. /\ response' \in Seq(Bytes)
          /\ response'[3] = amOtaCmd2Byte(cmd)
          /\ cmd = HEADER => SubSeq(response', 5, 8) = counter
      <4> DEFINE r == CmdRsp(amOtaCmd2Byte(cmd), s, counter)
      <4>1. cmd \in Sent /\ counter \in Seq(Bytes) /\ Len(counter) = 4
        BY DEF Exchange
      <4>2. /\ r \in Seq(Bytes) /\ r[3] = amOtaCmd2Byte(cmd)
            /\ cmd = HEADER => SubSeq(r, 5, 8) = counter
        BY <3>2, <4>1, AnswerFields, Zenon
      <4>3. response' = r
        BY <3>1, <3>3
      <4> HIDE DEF r
      <4> QED
        BY <4>2, <4>3
    <3> QED
      BY <1>4, <3>4 DEF DeviceAnswers, Answered
  <2>4. Sized' /\ Counted'
    BY <1>4 DEF DeviceAnswers, Sized, Counted, Counting
  <2> QED
    BY <2>1, <2>2, <2>3, <2>4
<1>5. ASSUME pc = "answered"
      PROVE  byte2OtaCmd(response[3]) = cmd
  BY <1>5, CommandByte DEF Answered, Exchange
<1>6. CASE otaCmdResponseError
  <2>1. Exchange'
    BY <1>6 DEF otaCmdResponseError, Exchange
  <2>2. Summed' /\ Packed'
    BY <1>6 DEF otaCmdResponseError, Summed, Packed
  <2>3. Answered'
    BY <1>5, <1>6 DEF otaCmdResponseError, Answered
  <2>4. Sized' /\ Counted'
    BY <1>6 DEF otaCmdResponseError, Sized, Counted, Counting
  <2> QED
    BY <2>1, <2>2, <2>3, <2>4
<1>7. CASE otaCmdResponse
  <2>1. heard' = cmd
    BY <1>5, <1>7 DEF otaCmdResponse
  <2>2. pc' \in {"sendFwData", "done"} /\ (pc' = "sendFwData" <=> cmd = HEADER)
    BY <1>7, <2>1 DEF otaCmdResponse
  <2>3. Exchange'
    BY <1>7, <2>2 DEF otaCmdResponse, Exchange
  <2>4. Summed' /\ Packed'
    BY <1>7, <2>2 DEF otaCmdResponse, Summed, Packed
  <2>5. Answered'
    BY <1>7, <2>1, <2>2 DEF otaCmdResponse, Answered
  <2>6. Sized'
    BY <1>7, <2>2 DEF otaCmdResponse, Sized
  <2>7. Counted'
    <3>1. offset = 0 /\ fileOffset = 0 /\ progress = 0
      BY <1>7 DEF otaCmdResponse, Counted
    <3>2. CASE cmd = HEADER
      <4>1. fileOffset' = Decode(counter) /\ offset' = fileOffset'
        BY <1>7, <2>1, <3>2 DEF otaCmdResponse, Answered
      <4>2. Decode(counter) \in Int
        BY DecodeOfSeq DEF Exchange
      <4> QED
        BY <1>7, <2>2, <3>1, <3>2, <4>1, <4>2
           DEF otaCmdResponse, Counted, Counting
    <3>3. CASE cmd # HEADER
      BY <1>7, <2>1, <3>1, <3>3 DEF otaCmdResponse, Counted
    <3> QED
      BY <3>2, <3>3
  <2> QED
    BY <2>3, <2>4, <2>5, <2>6, <2>7
<1>8. CASE sendFwData
  <2>1. Exchange' /\ Summed'
    BY <1>8 DEF sendFwData, Exchange, Summed
  <2>2. Packed' /\ Answered' /\ Sized'
    BY <1>8 DEF sendFwData, Packed, Answered, Sized
  <2>3. Counted'
    <3> DEFINE rest == fileSize - offset
               ret == IF rest < FwPacketSize THEN rest ELSE FwPacketSize
    <3>1. cmd = HEADER /\ pc = "sendFwData" /\ pc' = "sendFwData"
      BY <1>8 DEF sendFwData, Exchange
    <3>2. /\ fileOffset = Decode(counter) /\ offset \in Int /\ Counting
          /\ offset < fileSize
      BY <1>8, <3>1 DEF sendFwData, Counted
    <3>3. fileSize = Decode(mdfBinLength(data))
      BY <3>1 DEF Sized
    <3>4. fileSize \in Int /\ fileOffset \in Int
      BY <3>1, <3>2, <3>3, DecodeOfSeq DEF Exchange
    <3>5. fileOffset <= offset
      BY <3>2, <3>4 DEF Counting
    <3>6. fileOffset >= 0
      <4>1. Decode(counter) < Decode(mdfBinLength(data))
        BY <3>2, <3>3, <3>4, <3>5
      <4> QED
        BY <3>1, <3>2, <4>1, CounterBelowSize DEF Exchange
    <3>7. FwPacketSize \in Nat \ {0}
      BY SizesAssumption
    <3>8. /\ offset' = offset + ret /\ progress' = Percent(offset', fileSize)
          /\ fileSize' = fileSize /\ fileOffset' = fileOffset
          /\ counter' = counter /\ cmd' = cmd
      BY <1>8 DEF sendFwData
    <3>9. offset + ret \in Int /\ offset < offset + ret /\ offset + ret <= fileSize
      BY <3>2, <3>4, <3>7
    <3> HIDE DEF ret
    <3>10. Counting'
      BY <3>2, <3>4, <3>5, <3>6, <3>8, <3>9 DEF Counting
    <3> QED
      BY <3>1, <3>2, <3>8, <3>9, <3>10 DEF Counted
  <2> QED
    BY <2>1, <2>2, <2>3
<1>9. CASE DataSent
  <2>1. Exchange' /\ Summed'
    BY <1>9 DEF DataSent, Exchange, Summed
  <2>2. Packed' /\ Answered' /\ Sized'
    BY <1>9 DEF DataSent, Packed, Answered, Sized
  <2>3. Counted'
    BY <1>9 DEF DataSent, Exchange, Counted, Counting
  <2> QED
    BY <2>1, <2>2, <2>3
<1>10. CASE UNCHANGED vars
  BY <1>10 DEF vars, Exchange, Summed, Packed, Answered, Sized, Counted, Counting
<1> QED
  BY <1>1, <1>2, <1>3, <1>4, <1>6, <1>7, <1>8, <1>9, <1>10 DEF Next

-----------------------------------------------------------------------------
(* What holds of every exchange.                                           *)

\* The packet, the answer and the counters follow from what was to be sent, and
\* the two sums agree: the inductive invariant of the rest.
THEOREM BytesInvariant == Spec => []BytesInv
<1>1. Init => BytesInv
  BY BytesInitially
<1>2. BytesInv /\ [Next]_vars => BytesInv'
  BY BytesStep
<1> QED
  BY <1>1, <1>2, PTL DEF Spec

\* Every variable keeps its type: what goes over the air are bytes, the sums have
\* 32 bits, and sizes, offsets and percentages are Ints.
THEOREM BytesTypeCorrect == Spec => []TypeOK
<1>1. BytesInv => TypeOK
  <2> SUFFICES ASSUME BytesInv PROVE TypeOK
    OBVIOUS
  <2> USE DEF BytesInv
  <2>1. cmd \in {HEADER, DATA, VERIFY} /\ data \in Seq(Bytes)
    BY DEF Exchange, Sent
  <2>2. i \in 0..Len(data) /\ crc \subseteq 0..31 /\ rem \subseteq 0..31
    BY DEF Summed
  <2>3. packet \in Seq(Bytes)
    <3>1. CASE pc \in {"sendFwHeader", "sendOtaCmd"}
      BY <3>1 DEF Packed
    <3>2. CASE pc \notin {"sendFwHeader", "sendOtaCmd"}
      BY <3>2, PacketRead
    <3> QED
      BY <3>1, <3>2
  <2>4. response \in Seq(Bytes)
    <3>1. <<>> \in Seq(Bytes)
      BY SMT
    <3> QED
      BY <3>1, Zenon DEF Answered
  <2>5. heard \in AmotaCmd
    BY CommandByte DEF Answered, Exchange
  <2>6. Int32(0)
    BY SMT DEF Int32
  <2>7. fileSize \in Int /\ Int32(fileSize)
    BY <2>6, DecodeOfSeq DEF Sized, Exchange
  <2>8. fileOffset \in Int /\ Int32(fileOffset)
    BY <2>6, DecodeOfSeq DEF Counted, Exchange
  <2>9. Int32(offset) /\ Int32(progress)
    <3>1. CASE cmd = HEADER /\ pc \in {"sendFwData", "done"}
      <4>1. CASE offset = fileOffset /\ progress = 0
        BY <2>6, <2>8, <4>1
      <4>2. CASE /\ 0 <= fileOffset /\ fileOffset < offset /\ offset <= fileSize
                 /\ progress = Percent(offset, fileSize)
        <5>1. offset \in Nat /\ fileSize \in Nat \ {0}
          BY <2>7, <2>8, <3>1, <4>2, SMT DEF Counted
        <5>2. Int32(progress)
          BY <4>2, <5>1, PercentRange
        <5>3. Int32(offset)
          BY <2>7, <4>2, <5>1, SMT DEF Int32
        <5> QED
          BY <5>2, <5>3
      <4> QED
        BY <3>1, <4>1, <4>2 DEF Counted, Counting
    <3>2. CASE ~(cmd = HEADER /\ pc \in {"sendFwData", "done"})
      BY <2>6, <3>2 DEF Counted
    <3> QED
      BY <3>1, <3>2
  <2> QED
    BY <2>1, <2>2, <2>3, <2>4, <2>5, <2>7, <2>8, <2>9 DEF TypeOK
<1> QED
  BY <1>1, BytesInvariant, PTL

\* calcCrc32, by its table, computes the CRC of the polynomial for data of every
\* content and length.
THEOREM SumsAgree == Spec => []CrcAgrees
<1>1. BytesInv => CrcAgrees
  BY DEF BytesInv, Summed, CrcAgrees
<1> QED
  BY <1>1, BytesInvariant, PTL

\* The packet that sendOtaCmd puts together is one by the format of amOta.h, with
\* the command, the data and the CRC of the data where a device looks for them.
THEOREM PacketsReadable == Spec => []DeviceReadsPacket
<1>1. BytesInv => DeviceReadsPacket
  <2> SUFFICES ASSUME BytesInv, packet # <<>>
               PROVE  /\ IsPacket(packet)
                      /\ eAmotaCommand[PKG_CMD(packet)] = cmd
                      /\ PKG_Data(packet) = data
                      /\ FromBytes(PKG_CS(packet)) = Xor(rem, AllOnes)
    BY DEF DeviceReadsPacket
  <2>1. pc \notin {"sendFwHeader", "sendOtaCmd"}
    BY DEF BytesInv, Packed
  <2>2. eAmotaCommand[amOtaCmd2Byte(cmd)] = cmd
    BY CommandByte DEF BytesInv, Exchange
  <2>3. (IF data = <<>> THEN AllOnes ELSE crc) = rem
    BY DEF BytesInv, Summed
  <2> QED
    BY <2>1, <2>2, <2>3, PacketRead
<1> QED
  BY <1>1, BytesInvariant, PTL

\* An answer is taken for that of the command it answers, and the declared size
\* and the byte counter for the 32 bits they have, their sign included.
THEOREM AnswersDecoded == Spec => []AnswerDecoded
<1>1. BytesInv => AnswerDecoded
  <2> SUFFICES ASSUME BytesInv PROVE AnswerDecoded
    OBVIOUS
  <2> USE DEF BytesInv
  <2>1. heard # UNKNOWN => heard = cmd
    BY DEF Answered
  <2>2. pc \in {"done", "sendFwData"} => heard = cmd
    BY DEF Answered
  <2>3. ASSUME cmd = HEADER, pc # "sendFwHeader"
        PROVE  Word(fileSize) = FromBytes(mdfBinLength(data))
    BY <2>3, DecodeOfSeq DEF Exchange, Sized
  <2>4. ASSUME heard = HEADER, pc # "stopped"
        PROVE  Word(fileOffset) = FromBytes(counter)
    <3>1. HEADER # UNKNOWN
      BY DEF HEADER, UNKNOWN
    <3>2. cmd = HEADER /\ pc \in {"sendFwData", "done"}
      BY <2>1, <2>4, <3>1 DEF Answered
    <3> QED
      BY <3>2, DecodeOfSeq DEF Exchange, Counted
  <2> QED
    BY <2>1, <2>2, <2>3, <2>4 DEF AnswerDecoded
<1> QED
  BY <1>1, BytesInvariant, PTL

\* Up to MaxExact bytes the 32-bit arithmetic of sendFwData loses nothing of the
\* percentage, and ends at 100.
THEOREM ProgressExact == Spec => []ProgressIsExact
<1>1. BytesInv => ProgressIsExact
  <2> SUFFICES ASSUME BytesInv, cmd = HEADER, 0 < fileSize, fileSize <= MaxExact,
                      pc \in {"sendFwData", "done"}, offset > fileOffset
               PROVE  /\ progress = (offset * 100) \div fileSize
                      /\ pc = "done" => progress = 100
    BY Zenon DEF ProgressIsExact
  <2> USE DEF BytesInv
  <2>1. /\ fileOffset = Decode(counter) /\ offset \in Int
        /\ Counting
        /\ pc = "done" => offset >= fileSize
    BY DEF Counted
  <2>2. fileSize \in Int /\ fileOffset \in Int
    BY <2>1, DecodeOfSeq DEF Sized, Exchange
  <2>3. offset # fileOffset
    BY <2>1, <2>2
  <2>4. /\ 0 <= fileOffset /\ offset <= fileSize
        /\ progress = Percent(offset, fileSize)
    BY <2>3, <2>1 DEF Counting
  <2>5. fileSize \in Nat \ {0} /\ offset \in 0..fileSize
    BY <2>1, <2>2, <2>4
  <2>6. pc = "done" => offset = fileSize
    BY <2>1, <2>2, <2>4
  <2> QED
    BY <2>4, <2>5, <2>6, PercentExact
<1> QED
  BY <1>1, BytesInvariant, PTL

=============================================================================
