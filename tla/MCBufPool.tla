----------------------------- MODULE MCBufPool -----------------------------
(* BufPool for TLC: the addresses are those of one possible allocation.    *)
EXTENDS BufPool

MCPhys    == 3 * 4096
MCForeign == {MCPhys - 8, MCPhys + 8 * 4096 + 8}
=============================================================================
