--------------------------- MODULE Despacho_proofs ---------------------------
(***************************************************************************)
(* Theorems about Despacho, for any number of calls, workers and slots.    *)
(*                                                                         *)
(* IndisponivelNaoTransmite is not inductive: that no abandoned request    *)
(* transmits after its caller was told "indisponivel" depends on where the *)
(* request is inside the worker when the caller is told so.  Acordo says   *)
(* that for every phase of the caller and of the request.                  *)
(***************************************************************************)
EXTENDS Despacho, TLAPS

\* The request may still reach the point where it transmits.
PodeTransmitir(c) == serv[c] \in {"conexao", "aceita", "nativa"}

\* How the two sides of one call stand to each other.
AcordoDe(c) ==
  /\ fase[c] \in {"nova", "fila", "comVaga"}
       => serv[c] = "fora" /\ desfecho[c] = "nenhum"
  /\ fase[c] \in {"enviada", "lendo"} => desfecho[c] = "nenhum"
  /\ fase[c] = "lendo" => ~PodeTransmitir(c) /\ serv[c] \notin {"fora", "transmitiu"}
  /\ fase[c] = "fim" /\ c \in Transmissoras /\ desfecho[c] # "indeterminado"
       => ~PodeTransmitir(c) /\ serv[c] # "transmitiu"
  /\ serv[c] = "fora" \/ PodeTransmitir(c)
       => transmitidas[c] = 0 /\ resposta[c] = "nenhuma"
  /\ serv[c] = "transmitiu" => resposta[c] = "nenhuma" /\ rota[c][1] \notin SemLib
  /\ fase[c] \in ComVaga \/ serv[c] # "fora" => rota[c] \in Vagas
  /\ resposta[c] \in {"indisponivel", "naoSuportado"} => transmitidas[c] = 0
  /\ desfecho[c] \in {"indisponivel", "naoSuportado"} => transmitidas[c] = 0
  /\ desfecho[c] = "indeterminado" => c \in Transmissoras
  /\ transmitidas[c] <= 1
  /\ transmitidas[c] > 0 => c \in Transmissoras

Acordo == \A c \in Chamadas : AcordoDe(c)

IInv == TypeOK /\ Acordo


-----------------------------------------------------------------------------

USE DespachoAssumption

LEMMA InitIInv == Init => IInv
  BY DEF Init, IInv, TypeOK, Acordo, AcordoDe, PodeTransmitir, ComVaga,
         Desfechos, Vivas

\* What every action leaves alone: the requests of the other calls.
LEMMA PassoDoChamadorIInv ==
  ASSUME NEW c \in Chamadas, IInv, Chamar(c) \/ PassoDoChamador(c)
  PROVE  IInv'
<1> USE DEF IInv, TypeOK, ComVaga, Desfechos, Vivas, lado_worker, Responder,
            ResponderEDevolver
<1>1. CASE Chamar(c)
  BY <1>1 DEF Chamar, Acordo, AcordoDe, PodeTransmitir
<1>2. CASE PegarVaga(c)
  BY <1>2 DEF PegarVaga, Acordo, AcordoDe, PodeTransmitir
<1>3. CASE FilaEsgota(c)
  BY <1>3 DEF FilaEsgota, Acordo, AcordoDe, PodeTransmitir
<1>4. CASE Enviar(c)
  BY <1>4 DEF Enviar, Acordo, AcordoDe, PodeTransmitir
<1>5. CASE DialFalha(c)
  BY <1>5 DEF DialFalha, Acordo, AcordoDe, PodeTransmitir
<1>6. CASE ConexaoCai(c)
  BY <1>6 DEF ConexaoCai, ErroDeTransporte, Acordo, AcordoDe, PodeTransmitir
<1>7. CASE PrazoDaChamada(c)
  BY <1>7 DEF PrazoDaChamada, ErroDeTransporte, Acordo, AcordoDe, PodeTransmitir
<1>8. CASE CabecalhoChega(c)
  BY <1>8 DEF CabecalhoChega, Acordo, AcordoDe, PodeTransmitir
<1>9. CASE LerResposta(c)
  BY <1>9 DEF LerResposta, ErroDaResposta, Acordo, AcordoDe, PodeTransmitir
<1>10. CASE LeituraFalha(c)
  BY <1>10 DEF LeituraFalha, Acordo, AcordoDe, PodeTransmitir
<1> QED
  BY <1>1, <1>2, <1>3, <1>4, <1>5, <1>6, <1>7, <1>8, <1>9, <1>10
  DEF PassoDoChamador

LEMMA PassoDoHandlerIInv ==
  ASSUME NEW c \in Chamadas, IInv, PassoDoHandler(c)
  PROVE  IInv'
<1> USE DEF IInv, TypeOK, ComVaga, Desfechos, Vivas, lado_cliente
<1>1. CASE Aceitar(c)
  BY <1>1 DEF Aceitar, Acordo, AcordoDe, PodeTransmitir
<1>2. CASE PedidoTruncado(c)
  BY <1>2 DEF PedidoTruncado, Acordo, AcordoDe, PodeTransmitir
<1>3. CASE Despachar(c)
  <2> DEFINE w == rota[c][1]
  <2>1. w \in Workers
    BY <1>3 DEF Despachar, Acordo, AcordoDe, Vagas
  <2>2. Contadas(w) \in Nat /\ Fechados(w) \in Nat
    BY <2>1 DEF Contadas, Fechados
  <2>3. atendidas' \in [Workers -> Nat] /\ fechamentos' \in [Workers -> Nat]
    BY <1>3, <2>2 DEF Despachar
  <2>4. /\ serv' = [serv EXCEPT ![c] = "nativa"]
        /\ serv[c] = "aceita"
        /\ UNCHANGED <<fase, desfecho, rota, livres, quarentena, resposta,
                       transmitidas, proc, paradas>>
    BY <1>3 DEF Despachar
  <2>5. Acordo'
    BY <2>4 DEF Acordo, AcordoDe, PodeTransmitir
  <2> QED
    BY <2>3, <2>4, <2>5
<1>4. CASE DesistirDaVaga(c)
  BY <1>4 DEF DesistirDaVaga, Acordo, AcordoDe, PodeTransmitir
<1>5. CASE Transmitir(c)
  BY <1>5 DEF Transmitir, Acordo, AcordoDe, PodeTransmitir
<1>6. CASE Retornar(c)
  <2>1. PICK r \in Retornos(c) : resposta' = [resposta EXCEPT ![c] = r]
    BY <1>6 DEF Retornar
  <2>2. /\ r \in {"ok", "erro", "naoSuportado", "indisponivel"}
        /\ serv[c] = "transmitiu" /\ rota[c][1] \notin SemLib
             => r \in {"ok", "erro"}
    BY DEF Retornos
  <2>3. serv[c] = "transmitiu" => rota[c][1] \notin SemLib
    BY DEF Acordo, AcordoDe
  <2>4. /\ serv' = [serv EXCEPT ![c] = "respondendo"]
        /\ serv[c] \in {"nativa", "transmitiu"}
        /\ UNCHANGED <<fase, desfecho, rota, livres, quarentena, transmitidas,
                       proc, atendidas, fechamentos, paradas>>
    BY <1>6 DEF Retornar, NaLib
  <2>5. Acordo'
    BY <2>1, <2>2, <2>3, <2>4 DEF Acordo, AcordoDe, PodeTransmitir
  <2> QED
    BY <2>1, <2>2, <2>4, <2>5
<1>7. CASE Concluir(c)
  BY <1>7 DEF Concluir, Acordo, AcordoDe, PodeTransmitir
<1> QED
  BY <1>1, <1>2, <1>3, <1>4, <1>5, <1>6, <1>7 DEF PassoDoHandler

\* A request that loses its connection can no longer transmit.
LEMMA CortarIInv ==
  ASSUME IInv, NEW perdidas \in SUBSET {c \in Chamadas : serv[c] \in Vivas},
         Cortar(perdidas), UNCHANGED <<lado_cliente, resposta, transmitidas>>
  PROVE  /\ serv' \in [Chamadas -> {"fora", "caiu", "respondida"} \union Vivas]
         /\ Acordo'
  BY DEF IInv, TypeOK, Acordo, AcordoDe, PodeTransmitir, Cortar, ComVaga, Vivas,
         lado_cliente

LEMMA PassoDoProcessoIInv ==
  ASSUME NEW w \in Workers, IInv, PassoDoProcesso(w)
  PROVE  IInv'
<1>1. CASE Drenar(w)
  <2>1. PICK perdidas \in SUBSET NoWorker(w, {"conexao"}) : Cortar(perdidas)
    BY <1>1 DEF Drenar
  <2>2. perdidas \in SUBSET {c \in Chamadas : serv[c] \in Vivas}
    BY <2>1 DEF NoWorker, Vivas
  <2>3. /\ serv' \in [Chamadas -> {"fora", "caiu", "respondida"} \union Vivas]
        /\ Acordo'
    BY <1>1, <2>1, <2>2, CortarIInv DEF Drenar
  <2>4. paradas' \in 0..MaxParadas
    BY <1>1 DEF Drenar, IInv, TypeOK
  <2> QED
    BY <1>1, <2>3, <2>4 DEF Drenar, IInv, TypeOK, lado_cliente
<1>2. CASE Sair(w)
  BY <1>2 DEF Sair, IInv, TypeOK, Acordo, AcordoDe, PodeTransmitir, lado_cliente
<1>3. CASE Morrer(w)
  <2>1. NoWorker(w, Vivas) \in SUBSET {c \in Chamadas : serv[c] \in Vivas}
    BY DEF NoWorker
  <2>2. /\ serv' \in [Chamadas -> {"fora", "caiu", "respondida"} \union Vivas]
        /\ Acordo'
    BY <1>3, <2>1, CortarIInv DEF Morrer
  <2> QED
    BY <1>3, <2>2 DEF Morrer, IInv, TypeOK, lado_cliente
<1>4. CASE Reiniciar(w)
  BY <1>4 DEF Reiniciar, IInv, TypeOK, Acordo, AcordoDe, PodeTransmitir,
              lado_cliente
<1> QED
  BY <1>1, <1>2, <1>3, <1>4 DEF PassoDoProcesso

LEMMA NextIInv == IInv /\ [Next]_vars => IInv'
<1> SUFFICES ASSUME IInv, [Next]_vars PROVE IInv'
  OBVIOUS
<1>1. CASE \E c \in Chamadas : Chamar(c) \/ PassoDoChamador(c) \/ PassoDoHandler(c)
  BY <1>1, PassoDoChamadorIInv, PassoDoHandlerIInv
<1>2. CASE \E v \in Vagas : QuarentenaAcaba(v)
  BY <1>2 DEF QuarentenaAcaba, IInv, TypeOK, Acordo, AcordoDe, PodeTransmitir,
              lado_worker
<1>3. CASE \E w \in Workers : PassoDoProcesso(w)
  BY <1>3, PassoDoProcessoIInv
<1>4. CASE UNCHANGED vars
  BY <1>4 DEF vars, IInv, TypeOK, Acordo, AcordoDe, PodeTransmitir
<1> QED
  BY <1>1, <1>2, <1>3, <1>4 DEF Next, Repouso

\* The inductive invariant holds.
THEOREM EspecAcordo == Spec => []IInv
  BY InitIInv, NextIInv, PTL DEF Spec

\* Type correctness.
THEOREM EspecTipos == Spec => []TypeOK
<1>1. IInv => TypeOK
  BY DEF IInv
<1> QED
  BY <1>1, EspecAcordo, PTL

\* A caller told "indisponivel" may repeat: nothing left the host for it, then
\* or later (remoto.go:229-240).
THEOREM EspecIndisponivel == Spec => []IndisponivelNaoTransmite
<1>1. IInv => IndisponivelNaoTransmite
  BY DEF IInv, Acordo, AcordoDe, IndisponivelNaoTransmite
<1> QED
  BY <1>1, EspecAcordo, PTL

\* No call transmits twice (novoDestino, DisableKeepAlives).
THEOREM EspecSemReenvio == Spec => []SemReenvio
<1>1. IInv => SemReenvio
  BY DEF IInv, Acordo, AcordoDe, SemReenvio
<1> QED
  BY <1>1, EspecAcordo, PTL

-----------------------------------------------------------------------------
(* After the answer.                                                       *)

\* Only the native call of c itself counts a transmission of c.
LEMMA SoTransmitirTransmite ==
  ASSUME [Next]_vars, NEW c \in Chamadas, transmitidas'[c] # transmitidas[c],
         TypeOK
  PROVE  Transmitir(c)
<1>1. transmitidas' # transmitidas
  OBVIOUS
<1>2. PICK d \in Chamadas : Transmitir(d)
  BY <1>1 DEF Next, vars, lado_cliente, lado_worker, Chamar, PassoDoChamador,
     PassoDoHandler, PassoDoProcesso, PegarVaga, FilaEsgota, Enviar, DialFalha,
     ConexaoCai, PrazoDaChamada, CabecalhoChega, LerResposta, LeituraFalha,
     ResponderEDevolver, Aceitar, PedidoTruncado, Despachar, DesistirDaVaga,
     Retornar, Concluir, Drenar, Sair, Morrer, Reiniciar, Repouso,
     QuarentenaAcaba
<1>3. d = c
  BY <1>2 DEF Transmitir, TypeOK
<1> QED
  BY <1>2, <1>3

\* Of all answers only "indeterminado" leaves something open
\* (acbr.go:27-32, remoto.go:229-240).
THEOREM EspecSoIndeterminado == Spec => SoIndeterminadoMudaDepois
<1>1. IInv /\ [Next]_vars =>
        [\A c \in Chamadas :
           fase[c] = "fim" /\ desfecho[c] # "indeterminado"
             => transmitidas'[c] = transmitidas[c]]_vars
  <2> SUFFICES ASSUME IInv, [Next]_vars, NEW c \in Chamadas,
                      fase[c] = "fim", desfecho[c] # "indeterminado",
                      transmitidas'[c] # transmitidas[c]
               PROVE  FALSE
    OBVIOUS
  <2>1. Transmitir(c)
    BY SoTransmitirTransmite DEF IInv
  <2> QED
    BY <2>1 DEF Transmitir, IInv, Acordo, AcordoDe, PodeTransmitir
<1> QED
  BY <1>1, EspecAcordo, PTL DEF Spec, SoIndeterminadoMudaDepois

-----------------------------------------------------------------------------
(* The refinement of Promessa.                                             *)

\* An answer of chamar is an answer of the contract.
LEMMA RespostaDoContrato ==
  ASSUME IInv, IInv', NEW c \in Chamadas, NEW d, fase[c] # "fim",
         Responder(c, d), UNCHANGED transmitidas
  PROVE  Contrato!Responder(c)
<1>1. /\ fase'[c] = "fim" /\ desfecho'[c] = d
      /\ \A x \in Chamadas \ {c} : fase'[x] = fase[x] /\ desfecho'[x] = desfecho[x]
  BY DEF Responder, IInv, TypeOK
<1>2. Codigo(c) = "pendente"
  BY DEF Codigo
<1>3. Codigo(c)' \in Contrato!Codigos
  BY <1>1 DEF Codigo, CodigoDoErroDaLib, Contrato!Codigos
<1>4. \A x \in Chamadas \ {c} : Codigo(x)' = Codigo(x)
  BY <1>1 DEF Codigo
<1>5. Codigo(c)' \in {"lib_indisponivel", "operacao_nao_suportada"}
        => desfecho'[c] \in {"indisponivel", "naoSuportado"}
  BY <1>1 DEF Codigo, CodigoDoErroDaLib
<1>6. Codigo(c)' = "desfecho_indeterminado" => desfecho'[c] = "indeterminado"
  BY <1>1 DEF Codigo, CodigoDoErroDaLib
<1>7. /\ Codigo(c)' \in {"lib_indisponivel", "operacao_nao_suportada"}
           => transmitidas[c] = 0
      /\ Codigo(c)' = "desfecho_indeterminado" => c \in Transmissoras
  BY <1>5, <1>6 DEF IInv, Acordo, AcordoDe
<1>8. [x \in Chamadas |-> Codigo(x)'] =
        [[x \in Chamadas |-> Codigo(x)] EXCEPT ![c] = Codigo(c)']
  BY <1>4
<1> QED
  BY <1>2, <1>3, <1>7, <1>8 DEF Contrato!Responder

\* A step that answers nobody and transmits nothing is invisible to it.
LEMMA PassoInvisivel ==
  ASSUME IInv, IInv', UNCHANGED <<desfecho, transmitidas>>,
         \A c \in Chamadas : fase'[c] = "fim" <=> fase[c] = "fim"
  PROVE  UNCHANGED Contrato!vars
<1>1. \A c \in Chamadas : Codigo(c)' = Codigo(c)
  BY DEF Codigo
<1> QED
  BY <1>1 DEF Contrato!vars

LEMMA ChamadorNoContrato ==
  ASSUME IInv, IInv', NEW c \in Chamadas, Chamar(c) \/ PassoDoChamador(c)
  PROVE  Contrato!Next \/ UNCHANGED Contrato!vars
<1>1. CASE Chamar(c) \/ PegarVaga(c) \/ Enviar(c) \/ CabecalhoChega(c)
  <2>1. /\ UNCHANGED <<desfecho, transmitidas>>
        /\ \A x \in Chamadas : fase'[x] = "fim" <=> fase[x] = "fim"
    BY <1>1 DEF Chamar, PegarVaga, Enviar, CabecalhoChega, lado_worker, IInv,
                TypeOK
  <2> QED
    BY <2>1, PassoInvisivel
<1>2. CASE FilaEsgota(c) \/ DialFalha(c) \/ ConexaoCai(c) \/ PrazoDaChamada(c)
           \/ LerResposta(c) \/ LeituraFalha(c)
  <2>1. /\ fase[c] # "fim" /\ UNCHANGED transmitidas
        /\ \E d : Responder(c, d)
    BY <1>2 DEF FilaEsgota, DialFalha, ConexaoCai, PrazoDaChamada, LerResposta,
                LeituraFalha, ResponderEDevolver, lado_worker
  <2>2. Contrato!Responder(c)
    BY <2>1, RespostaDoContrato
  <2> QED
    BY <2>2 DEF Contrato!Next
<1> QED
  BY <1>1, <1>2 DEF PassoDoChamador

LEMMA HandlerNoContrato ==
  ASSUME IInv, IInv', NEW c \in Chamadas, PassoDoHandler(c)
  PROVE  Contrato!Next \/ UNCHANGED Contrato!vars
<1>1. CASE Transmitir(c)
  <2>1. \A x \in Chamadas : Codigo(x)' = Codigo(x)
    BY <1>1 DEF Transmitir, lado_cliente, Codigo
  <2>2. transmitidas[c] = 0 /\ c \in Transmissoras
    BY <1>1 DEF Transmitir, IInv, Acordo, AcordoDe, PodeTransmitir
  <2>3. transmitidas' = [transmitidas EXCEPT ![c] = 1]
    BY <1>1, <2>2 DEF Transmitir, IInv, TypeOK
  <2>4. fase[c] = "fim" => desfecho[c] = "indeterminado"
    BY <1>1, <2>2 DEF Transmitir, IInv, Acordo, AcordoDe, PodeTransmitir
  <2>5. Codigo(c) \in {"pendente", "desfecho_indeterminado"}
    BY <2>4 DEF Codigo, CodigoDoErroDaLib
  <2> QED
    BY <2>1, <2>2, <2>3, <2>5 DEF Contrato!Next, Contrato!Transmitir
<1>2. CASE Aceitar(c) \/ PedidoTruncado(c) \/ Despachar(c) \/ DesistirDaVaga(c)
           \/ Retornar(c) \/ Concluir(c)
  <2>1. UNCHANGED <<fase, desfecho, transmitidas>>
    BY <1>2 DEF Aceitar, PedidoTruncado, Despachar, DesistirDaVaga, Retornar,
                Concluir, lado_cliente
  <2> QED
    BY <2>1, PassoInvisivel
<1> QED
  BY <1>1, <1>2 DEF PassoDoHandler

LEMMA PassoDoContrato ==
  ASSUME IInv, IInv', [Next]_vars
  PROVE  [Contrato!Next]_(Contrato!vars)
<1>1. CASE \E c \in Chamadas : Chamar(c) \/ PassoDoChamador(c) \/ PassoDoHandler(c)
  BY <1>1, ChamadorNoContrato, HandlerNoContrato
<1>2. CASE \E v \in Vagas : QuarentenaAcaba(v)
  BY <1>2, PassoInvisivel DEF QuarentenaAcaba, lado_worker
<1>3. CASE \E w \in Workers : PassoDoProcesso(w)
  <2>1. UNCHANGED <<fase, desfecho, transmitidas>>
    BY <1>3 DEF PassoDoProcesso, Drenar, Sair, Morrer, Reiniciar, lado_cliente
  <2> QED
    BY <2>1, PassoInvisivel
<1>4. CASE UNCHANGED vars
  BY <1>4, PassoInvisivel DEF vars
<1> QED
  BY <1>1, <1>2, <1>3, <1>4 DEF Next, Repouso

\* The pool and the workers together keep the error contract of the API.
THEOREM EspecPromessa == Spec => CumprePromessa
<1>1. Init => Contrato!Init
  BY DEF Init, Contrato!Init, Codigo
<1>2. IInv /\ IInv' /\ [Next]_vars => [Contrato!Next]_(Contrato!vars)
  BY PassoDoContrato
<1> QED
  BY <1>1, <1>2, EspecAcordo, PTL DEF Spec, CumprePromessa, Contrato!Spec

-----------------------------------------------------------------------------
(* Recycling.  The channel may be closed again only if the counter can     *)
(* reach the limit twice: it is one past the limit after the first time.   *)

\* The channel was closed when the counter reached the limit, and then only.
FechadoNoLimite ==
  \A w \in Workers :
    fechamentos[w] = IF MaxCalls # 0 /\ atendidas[w] >= MaxCalls THEN 1 ELSE 0

LEMMA PassoFechadoNoLimite ==
  IInv /\ FechadoNoLimite /\ [Next]_vars => FechadoNoLimite'
<1> SUFFICES ASSUME IInv, FechadoNoLimite, [Next]_vars
             PROVE  FechadoNoLimite'
  OBVIOUS
<1> USE DEF IInv, TypeOK
<1>1. CASE \E c \in Chamadas : Despachar(c)
  <2>1. PICK c \in Chamadas : Despachar(c)
    BY <1>1
  <2>2. rota[c][1] \in Workers
    BY <2>1 DEF Despachar, Acordo, AcordoDe, Vagas
  <2>3. atendidas' = [atendidas EXCEPT ![rota[c][1]] = Contadas(rota[c][1])]
        /\ fechamentos' = [fechamentos EXCEPT ![rota[c][1]] = Fechados(rota[c][1])]
    BY <2>1 DEF Despachar
  <2> QED
    BY <2>2, <2>3 DEF FechadoNoLimite, Contadas, Fechados
<1>2. CASE \E w \in Workers : Reiniciar(w)
  BY <1>2 DEF Reiniciar, FechadoNoLimite
<1>3. CASE UNCHANGED <<atendidas, fechamentos>>
  BY <1>3 DEF FechadoNoLimite
<1>4. ASSUME NEW c \in Chamadas, Chamar(c) \/ PassoDoChamador(c) \/ PassoDoHandler(c)
      PROVE  Despachar(c) \/ UNCHANGED <<atendidas, fechamentos>>
  BY <1>4 DEF Chamar, PassoDoChamador, PassoDoHandler, PegarVaga, FilaEsgota,
    Enviar, DialFalha, ConexaoCai, PrazoDaChamada, CabecalhoChega, LerResposta,
    LeituraFalha, Aceitar, PedidoTruncado, DesistirDaVaga, Transmitir, Retornar,
    Concluir, Responder, ResponderEDevolver, lado_worker
<1>5. ASSUME NEW w \in Workers, PassoDoProcesso(w)
      PROVE  Reiniciar(w) \/ UNCHANGED <<atendidas, fechamentos>>
  BY <1>5 DEF PassoDoProcesso, Drenar, Sair, Morrer
<1> QED
  BY <1>1, <1>2, <1>3, <1>4, <1>5
  DEF Next, Repouso, QuarentenaAcaba, lado_worker, vars

\* A process closes the channel `reciclar` at most once, however many requests
\* go past the limit while it drains: a second close would panic
\* (rpcserver.go, contar).
THEOREM EspecReciclarFechaUmaVez == Spec => []ReciclarFechaUmaVez
<1>1. Init => FechadoNoLimite
  BY DEF Init, FechadoNoLimite
<1>2. FechadoNoLimite => ReciclarFechaUmaVez
  BY DEF FechadoNoLimite, ReciclarFechaUmaVez
<1> QED
  BY <1>1, <1>2, PassoFechadoNoLimite, EspecAcordo, PTL DEF Spec

=============================================================================
