-------------------------- MODULE MCBabylonianSqrt --------------------------
EXTENDS BabylonianSqrt

(* Every argument up to 2000 and the neighbours of 215 * 215: AboveRoot    *)
(* squares the argument, and TLC's integers have 32 bits.                  *)
MCInputs == (0 .. 2000) \cup {46224, 46225, 46226}
=============================================================================
