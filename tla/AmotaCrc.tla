------------------------------ MODULE AmotaCrc ------------------------------
(***************************************************************************)
(* CrcCalculator.kt: the CRC that sendOtaCmd puts behind the data of a     *)
(* packet, by a table, and the definition it has to agree with, which      *)
(* crc32.h gives: "polynomial 0x104C11DB7, bit reverse algorithm".         *)
(*                                                                         *)
(* A 32-bit word is the set of the positions of its 1 bits: exclusive or   *)
(* is the symmetric difference, a logical shift moves the positions, and   *)
(* an Int and an unsigned word of the same bits are the same set.          *)
(***************************************************************************)
LOCAL INSTANCE Integers

\* The word of a number of the range of Int, in two's complement.
Word(n) ==
  IF n >= 0 THEN {k \in 0..30 : (n \div 2^k) % 2 = 1}
            ELSE (0..31) \ {k \in 0..30 : ((-(n + 1)) \div 2^k) % 2 = 1}

Xor(w, v) == (w \ v) \union (v \ w)

Ushr(w, n) == {k - n : k \in {b \in w : b >= n}}

\* (w shr 8 * n).toByte(), as an unsigned number.
ToByte(w, n) ==
  LET bit(k) == IF 8 * n + k \in w THEN 2^k ELSE 0
  IN bit(0) + bit(1) + bit(2) + bit(3) + bit(4) + bit(5) + bit(6) + bit(7)

\* The word of four bytes, the lowest first.
FromBytes(b) == UNION {{8 * n + k : k \in Word(b[n + 1])} : n \in 0..3}

AllOnes == Word(-1)

-----------------------------------------------------------------------------
(* CrcCalculator.kt.                                                       *)

crc32Table ==
  <<
     \h00000000,  \h77073096, -\h11f19ed4, -\h66f6ae46,
     \h076dc419,  \h706af48f, -\h169c5acb, -\h619b6a5d,
     \h0edb8832,  \h79dcb8a4, -\h1f2a16e2, -\h682d2678,
     \h09b64c2b,  \h7eb17cbd, -\h1847d2f9, -\h6f40e26f,
     \h1db71064,  \h6ab020f2, -\h0c468eb8, -\h7b41be22,
     \h1adad47d,  \h6ddde4eb, -\h0b2b4aaf, -\h7c2c7a39,
     \h136c9856,  \h646ba8c0, -\h029d0686, -\h759a3614,
     \h14015c4f,  \h63066cd9, -\h05f0c29d, -\h72f7f20b,
     \h3b6e20c8,  \h4c69105e, -\h2a9fbe1c, -\h5d988e8e,
     \h3c03e4d1,  \h4b04d447, -\h2df27a03, -\h5af54a95,
     \h35b5a8fa,  \h42b2986c, -\h2444362a, -\h534306c0,
     \h32d86ce3,  \h45df5c75, -\h2329f231, -\h542ec2a7,
     \h26d930ac,  \h51de003a, -\h3728ae80, -\h402f9eea,
     \h21b4f4b5,  \h56b3c423, -\h30456a67, -\h47425af1,
     \h2802b89e,  \h5f058808, -\h39f3264e, -\h4ef416dc,
     \h2f6f7c87,  \h58684c11, -\h3e9ee255, -\h4999d2c3,
     \h76dc4190,  \h01db7106, -\h672ddf44, -\h102aefd6,
     \h71b18589,  \h06b6b51f, -\h60401b5b, -\h17472bcd,
     \h7807c9a2,  \h0f00f934, -\h69f65772, -\h1ef167e8,
     \h7f6a0dbb,  \h086d3d2d, -\h6e9b9369, -\h199ca3ff,
     \h6b6b51f4,  \h1c6c6162, -\h7a9acf28, -\h0d9dffb2,
     \h6c0695ed,  \h1b01a57b, -\h7df70b3f, -\h0af03ba9,
     \h65b0d9c6,  \h12b7e950, -\h74414716, -\h03467784,
     \h62dd1ddf,  \h15da2d49, -\h732c830d, -\h042bb39b,
     \h4db26158,  \h3ab551ce, -\h5c43ff8c, -\h2b44cf1e,
     \h4adfa541,  \h3dd895d7, -\h5b2e3b93, -\h2c290b05,
     \h4369e96a,  \h346ed9fc, -\h529877ba, -\h259f4730,
     \h44042d73,  \h33031de5, -\h55f5b3a1, -\h22f28337,
     \h5005713c,  \h270241aa, -\h41f4eff0, -\h36f3df7a,
     \h5768b525,  \h206f85b3, -\h46992bf7, -\h319e1b61,
     \h5edef90e,  \h29d9c998, -\h4f2f67de, -\h3828574c,
     \h59b33d17,  \h2eb40d81, -\h4842a3c5, -\h3f459353,
    -\h12477ce0, -\h65404c4a,  \h03b6e20c,  \h74b1d29a,
    -\h152ab8c7, -\h622d8851,  \h04db2615,  \h73dc1683,
    -\h1c9cf4ee, -\h6b9bc47c,  \h0d6d6a3e,  \h7a6a5aa8,
    -\h1bf130f5, -\h6cf60063,  \h0a00ae27,  \h7d079eb1,
    -\h0ff06cbc, -\h78f75c2e,  \h1e01f268,  \h6906c2fe,
    -\h089da8a3, -\h7f9a9835,  \h196c3671,  \h6e6b06e7,
    -\h012be48a, -\h762cd420,  \h10da7a5a,  \h67dd4acc,
    -\h06462091, -\h71411007,  \h17b7be43,  \h60b08ed5,
    -\h29295c18, -\h5e2e6c82,  \h38d8c2c4,  \h4fdff252,
    -\h2e44980f, -\h5943a899,  \h3fb506dd,  \h48b2364b,
    -\h27f2d426, -\h50f5e4b4,  \h36034af6,  \h41047a60,
    -\h209f103d, -\h579820ab,  \h316e8eef,  \h4669be79,
    -\h349e4c74, -\h43997ce6,  \h256fd2a0,  \h5268e236,
    -\h33f3886b, -\h44f4b8fd,  \h220216b9,  \h5505262f,
    -\h3a45c442, -\h4d42f4d8,  \h2bb45a92,  \h5cb36a04,
    -\h3d280059, -\h4a2f30cf,  \h2cd99e8b,  \h5bdeae1d,
    -\h649b3d50, -\h139c0dda,  \h756aa39c,  \h026d930a,
    -\h63f6f957, -\h14f1c9c1,  \h72076785,  \h05005713,
    -\h6a40b57e, -\h1d4785ec,  \h7bb12bae,  \h0cb61b38,
    -\h6d2d7165, -\h1a2a41f3,  \h7cdcefb7,  \h0bdbdf21,
    -\h792c2d2c, -\h0e2b1dbe,  \h68ddb3f8,  \h1fda836e,
    -\h7e41e933, -\h0946d9a5,  \h6fb077e1,  \h18b74777,
    -\h77f7a51a, -\h00f09590,  \h66063bca,  \h11010b5c,
    -\h709a6101, -\h079d5197,  \h616bffd3,  \h166ccf45,
    -\h5ff51d88, -\h28f22d12,  \h4e048354,  \h3903b3c2,
    -\h5898d99f, -\h2f9fe909,  \h4969474d,  \h3e6e77db,
    -\h512e95b6, -\h2629a524,  \h40df0b66,  \h37d83bf0,
    -\h564351ad, -\h2144613b,  \h47b2cf7f,  \h30b5ffe9,
    -\h42420de4, -\h35453d76,  \h53b39330,  \h24b4a3a6,
    -\h452fc9fb, -\h3228f96d,  \h54de5729,  \h23d967bf,
    -\h4c9985d2, -\h3b9eb548,  \h5d681b02,  \h2a6f2b94,
    -\h4bf441c9, -\h3cf3715f,  \h5a05df1b,  \h2d02ef8d
  >>

\* Mutant: an arithmetic shift.
TableStepArithmetic(crc, byte) ==
  Xor(Word(crc32Table[1 + ToByte(Xor(crc, Word(byte)), 0)]),
      Ushr(crc, 8) \union (IF 31 \in crc THEN 24..31 ELSE {}))

\* One turn of the loop of calcCrc32.
TableStep(crc, byte) ==
  Xor(Word(crc32Table[1 + ToByte(Xor(crc, Word(byte)), 0)]), Ushr(crc, 8))

-----------------------------------------------------------------------------
(* The definition.                                                         *)

\* The polynomial without its highest term, bits reversed.
Polynomial == {31 - k : k \in Word(\h04c11db7)}

PolynomialBit(w) ==
  IF 0 \in w THEN Xor(Ushr(w, 1), Polynomial) ELSE Ushr(w, 1)

\* The remainder w of the bytes so far, and the next byte: eight divisions.
PolynomialStep(w, byte) ==
  LET two(v) == PolynomialBit(PolynomialBit(v))
      four(v) == two(two(v))
  IN four(four(Xor(w, Word(byte))))

\* The table is that of the polynomial: every entry is the remainder of its
\* index.  This is a statement about 256 numbers, that TLC evaluates.
ASSUME TableAssumption ==
  \A b \in 0..255 : Word(crc32Table[b + 1]) = PolynomialStep({}, b)

=============================================================================
