------------------------------ MODULE MCMemory ------------------------------
(* The instance of Memory, and of the builders in it, that TLC checks.     *)
EXTENDS Memory, TLC

\* The longest key whose length fits in four bytes of two values, and one
\* that is longer.
Payloads == {<<1>>, [i \in 1 .. 15 |-> 1], [i \in 1 .. 16 |-> 1]}

Symmetry == Permutations(Builder) \cup Permutations(Cell) \cup Permutations(Text)
=============================================================================
