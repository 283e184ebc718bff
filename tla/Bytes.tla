------------------------------- MODULE Bytes -------------------------------
(***************************************************************************)
(* Integers as sequences of bytes.  A byte has ByteMod values (256 in the  *)
(* program), so that the largest value of a width can be reached with      *)
(* small bytes.                                                            *)
(***************************************************************************)
EXTENDS Integers, Sequences

CONSTANT ByteMod

ASSUME ByteModAssumption == ByteMod \in Nat /\ ByteMod > 1

Byte == 0 .. ByteMod - 1

\* The number of values of a u16 and of a u32.
U16Mod == ByteMod * ByteMod
U32Mod == ByteMod * (ByteMod * (ByteMod * ByteMod))

\* u32::to_le_bytes
ToLeBytes(n) ==
    LET d1 == n \div ByteMod
        d2 == d1 \div ByteMod
        d3 == d2 \div ByteMod
    IN  <<n % ByteMod, d1 % ByteMod, d2 % ByteMod, d3 % ByteMod>>

\* u32::from_le_bytes
FromLeBytes(b) ==
    b[1] + ByteMod * (b[2] + ByteMod * (b[3] + ByteMod * b[4]))
=============================================================================
