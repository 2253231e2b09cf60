------------------------------ MODULE Promessa ------------------------------
(***************************************************************************)
(* What the error contract of the API promises about one call, without    *)
(* workers, slots or connections: the code that reaches the client         *)
(* (internal/fiscal/fiscal.go, ResponderErroDaLib) says whether the        *)
(* operation left the host, and an answer once given stays true.           *)
(***************************************************************************)
EXTENDS Naturals

CONSTANTS Chamadas, Transmissoras

VARIABLES
  codigo,       \* what the client was told, "pendente" until then
  transmitidas  \* how many times the operation left the host

vars == <<codigo, transmitidas>>

Codigos == {"sucesso", "lib_indisponivel", "operacao_nao_suportada",
            "desfecho_indeterminado", "falha_na_lib"}

Init ==
  /\ codigo       = [c \in Chamadas |-> "pendente"]
  /\ transmitidas = [c \in Chamadas |-> 0]

\* An operation leaves the host at most once, and only while its client is
\* waiting or has been told that the outcome is unknown.
Transmitir(c) ==
  /\ c \in Transmissoras
  /\ transmitidas[c] = 0
  /\ codigo[c] \in {"pendente", "desfecho_indeterminado"}
  /\ transmitidas' = [transmitidas EXCEPT ![c] = 1]
  /\ UNCHANGED codigo

\* 503 and 422 say that nothing left the host; only an operation that
\* transmits can have an unknown outcome.
Responder(c) ==
  /\ codigo[c] = "pendente"
  /\ \E k \in Codigos :
       /\ k \in {"lib_indisponivel", "operacao_nao_suportada"}
            => transmitidas[c] = 0
       /\ k = "desfecho_indeterminado" => c \in Transmissoras
       /\ codigo' = [codigo EXCEPT ![c] = k]
  /\ UNCHANGED transmitidas

Next == \E c \in Chamadas : Transmitir(c) \/ Responder(c)

Spec == Init /\ [][Next]_vars

=============================================================================
