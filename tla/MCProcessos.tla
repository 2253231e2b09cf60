---------------------------- MODULE MCProcessos ----------------------------
(***************************************************************************)
(* A small instance of Processos for TLC: two workers in a fixed order.    *)
(***************************************************************************)
EXTENDS Processos

CONSTANTS p1, p2, p3, w1, w2

MCDestinos == <<w1, w2>>

=============================================================================
