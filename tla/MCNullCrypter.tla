--------------------------- MODULE MCNullCrypter ---------------------------
(* Plaintexts for NullCrypter: every one of up to two bytes, and long ones  *)
(* that reach over the prefix, and over prefix and hash, when in place.     *)
EXTENDS NullCrypter

CONSTANTS b1, b2, b3

MCByte == {b1, b2, b3}

\* A plaintext of n bytes in which a shift by 8, 12 or 20 bytes shows.
Pattern(n) == [k \in 1..n |-> CASE k % 9 = 1 -> b1
                                [] k % 9 \in {2, 3, 5} -> b2
                                [] OTHER -> b3]

MCPlaintexts ==
    UNION {[1..n -> {b1, b2}] : n \in 0..2} \union {Pattern(n) : n \in {9, 21, 24}}

=============================================================================
