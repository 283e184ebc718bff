----------------------------- MODULE MCHandles -----------------------------
(* The instance of Handles that TLC checks.                                *)
EXTENDS Handles

CONSTANTS w1, w2, e1, e2

\* Too short for a length; an empty payload; a whole frame, the same truncated
\* and with a byte too many.
Wires == {<<1, 0, 0>>, <<0, 0, 0, 0>>, <<1, 0, 0, 0, 1>>, <<1, 0, 0, 0>>,
          <<1, 0, 0, 0, 1, 1>>}
=============================================================================
