----------------------------- MODULE MCDespacho -----------------------------
(***************************************************************************)
(* Small instances of Despacho for TLC: the names of the calls and of the  *)
(* workers, given in each .cfg as model values.                            *)
(***************************************************************************)
EXTENDS Despacho, TLC

CONSTANTS c1, c2, c3, w1, w2

\* Calls that transmit are interchangeable.  Not used for liveness.
TransmissorasTrocaveis == Permutations(Transmissoras)

=============================================================================
