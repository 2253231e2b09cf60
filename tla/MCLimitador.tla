----------------------------- MODULE MCLimitador -----------------------------
(***************************************************************************)
(* Small instances of Limitador for TLC.                                   *)
(***************************************************************************)
EXTENDS Limitador, TLC

CONSTANTS i1, i2, i3, p1, p2, p3

\* Addresses and goroutines are interchangeable.
Trocaveis == Permutations(Ips) \union Permutations(Pedidos)

=============================================================================
