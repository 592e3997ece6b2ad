---------------------------- MODULE MCAmotaBytes ----------------------------
(***************************************************************************)
(* Instances of AmotaBytes for TLC, at the sizes of AmotaConstants.kt.     *)
(***************************************************************************)
EXTENDS AmotaBytes

Edge == {0, 1, 127, 128, 255}

\* Every single byte, which takes in every entry of the table; pairs and triples
\* of edge cases; and lengths around the one where the length field carries.
MCBuffers ==
  {<<b>> : b \in Bytes}
    \union [1..2 -> Edge] \union [1..3 -> Edge]
    \union {[k \in 1..n |-> (k * 59 + n) % 256] : n \in 250..254}

\* n in four bytes.
LE(n) == <<n % 256, (n \div 2^8) % 256, (n \div 2^16) % 256, n \div 2^24>>

\* Sizes around a packet and around MaxExact, resumed at the start or near the
\* end; all bits set; and the two numbers beyond 2^31 - 1.
MCImages ==
  {[size |-> LE(n), counter |-> LE(c)] :
     n \in {1, 4095, 4096, 4097, 100000}, c \in {0, 1, 4096}}
    \union {[size |-> LE(n), counter |-> LE(n - d)] :
              n \in {MaxExact - 1, MaxExact, MaxExact + 1, 16777216, 2000000000},
              d \in {1, 4096, 4097, 20000}}
    \union {[size |-> s, counter |-> s] :
              s \in {<<255, 255, 255, 255>>, <<0, 0, 0, 128>>, <<1, 128, 255, 127>>}}

=============================================================================
