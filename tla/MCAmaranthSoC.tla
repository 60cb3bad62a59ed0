--------------------------- MODULE MCAmaranthSoC ----------------------------
EXTENDS AmaranthSoC

(* Two calls of a function differ, and so do the operands of each. *)
MCInputs == {<<1, 2>>, <<2, 1>>}
=============================================================================
