---------------------- MODULE Documento_respostas_proofs ----------------------
(***************************************************************************)
(* Theorems about what the clients of Documento are told: that it agrees   *)
(* with what the systems have, for any number of requests, any calendar    *)
(* and any tables.                                                         *)
(*                                                                         *)
(* An answer is one moment and the systems go on, so none of these is      *)
(* inductive alone.  Each is carried by what the answer of a call meant    *)
(* when it was given and by what never goes back: a note that exists goes  *)
(* on existing, a call arrives once, an answer that was read stays.        *)
(***************************************************************************)
EXTENDS Documento_proofs

USE RotaAssumption, DocumentoAssumption DEF RotaAssumption, DocumentoAssumption

-----------------------------------------------------------------------------
(* Where a call goes.                                                      *)

LEMMA RotaComSessao ==
  ASSUME Tipagem, emissor # Sefaz, NEW p \in Pedidos, NEW k
  PROVE  RotaDe(p, k).sessao \in Municipios
<1> DEFINE r == RotaDoMunicipio(emissor)
<1>0. emissor \in Municipios
  BY DEF Tipagem
<1>1. r.sessao \in Municipios /\ r.municipio \in Municipios
  BY <1>0 DEF RotaDoMunicipio
<1>2. Nacional(r).sessao \in Municipios
  BY DEF Nacional, RotaDoMunicipio
<1> HIDE DEF r
<1>3. \A op, comp : DaEmissao(r, op, comp) \in {r, Nacional(r)}
  BY DEF DaEmissao
<1>4. RotaDaTransmissao \in {r, Nacional(r)}
  BY <1>3 DEF RotaDaTransmissao, DaDPSPronta, r
<1>5. RotaDoCancelamento(p) \in {r, Nacional(r)}
  BY DEF RotaDoCancelamento, DoEvento, DaNota, r
<1>6. LET rs == RotasDaConsultaDPS(r)
      IN  rs[1] \in {r, Nacional(r)} /\ rs[Len(rs)] \in {r, Nacional(r)}
  BY DEF RotasDaConsultaDPS
<1>7. RotaDe(p, k) \in {r, Nacional(r)}
  BY <1>3, <1>4, <1>5, <1>6 DEF RotaDe, r
<1> QED
  BY <1>1, <1>2, <1>7

\* Every call goes to a system there is, in an environment there is.
LEMMA LugarExiste ==
  ASSUME Tipagem, NEW p \in Pedidos, NEW k
  PROVE  /\ SistemaDe(p, k) \in Sistemas
         /\ AmbienteDe(p) \in Ambientes
         /\ Lugar(p, k) \in Lugares
<1>1. SistemaDe(p, k) \in Sistemas
  <2>1. CASE emissor = Sefaz
    BY <2>1 DEF SistemaDe, Sistemas
  <2>2. CASE emissor # Sefaz
    BY <2>2, RotaComSessao DEF SistemaDe, Sistema, Sistemas
  <2> QED
    BY <2>1, <2>2
<1>2. AmbienteDe(p) \in Ambientes
  BY DEF AmbienteDe, Tipagem, Requisicoes
<1> QED
  BY <1>1, <1>2 DEF Lugar, Lugares

-----------------------------------------------------------------------------
(* What a step does to the calls.                                          *)

\* What the library says by itself; no system said it.
Caseiras == {"capacidades", "recusada", "naoImplementada", "documento",
             "divergente", "vazia", "semMensagens", "mensagens"}

\* A call that comes back keeps what its system answered, or loses it.
LEMMA RetornoDaChamada ==
  ASSUME NEW p \in Pedidos, NEW k \in 1..3, ContasCertas, Voltar(p, k)
  PROVE  /\ \/ retorno'[<<p, k>>] = retorno[<<p, k>>]
            \/ retorno'[<<p, k>>] = "vazia"
            \/ transmitidas[<<p, k>>] = 0 /\ retorno'[<<p, k>>] \in DaLib(p, k)
         /\ retorno'[<<p, k>>] \in {retorno[<<p, k>>]} \union Caseiras
<1>1. retorno'[<<p, k>>] \in Devolve(p, k) /\ transmitidas[<<p, k>>] \in 0..1
  BY RespostaDaChamada DEF ContasCertas, ChamadasDefinidas, Chamadas
<1>2. DaLib(p, k) \subseteq Caseiras
  BY DEF DaLib, Caseiras
<1> QED
  BY <1>1, <1>2 DEF Devolve, Caseiras

LEMMA OutrosPedidos ==
  ASSUME NEW p \in Pedidos, NEW k \in 1..3, IInv, ContasCertas, Voltar(p, k),
         NEW q \in Pedidos \ {p}
  PROVE  /\ etapa'[q] = etapa[q] /\ resultado'[q] = resultado[q]
         /\ \A j \in 1..3 : codigo'[<<q, j>>] = codigo[<<q, j>>]
                            /\ retorno'[<<q, j>>] = retorno[<<q, j>>]
<1>1. etapa \in [Pedidos -> 0..4] /\ resultado = [r \in Pedidos |-> resultado[r]]
  BY DEF IInv, Tipagem, ContasCertas, ChamadasDefinidas
<1>2. etapa'[q] = etapa[q] /\ resultado'[q] = resultado[q]
  BY <1>1, RespostaDaChamada
<1>3. \A j \in 1..3 : <<q, j>> \in Chamadas \ {<<p, k>>}
  BY DEF Chamadas
<1> QED
  BY <1>2, <1>3, RespostaDaChamada

\* How a request that is no generation goes on when a call of it is answered.
LEMMA DesfechoDaChamada ==
  ASSUME NEW p \in Pedidos, NEW k \in 1..3, IInv, ContasCertas, Voltar(p, k),
         pedido[p].tipo # "xml"
  PROVE  LET cod == codigo'[<<p, k>>]
             ret == retorno'[<<p, k>>]
         IN  \/ /\ etapa'[p] = 2 /\ resultado'[p] = "nenhum"
                /\ PassaAdiante(p, k, cod, ret)
             \/ /\ etapa'[p] = 3 /\ resultado'[p] = "nenhum"
                /\ k < 3 /\ ~ PassaAdiante(p, k, cod, ret)
                /\ cod = "sucesso" /\ ret = "naoImplementada"
             \/ /\ etapa'[p] = 4 /\ resultado'[p] = "operacao_nao_suportada"
                /\ k = 3
             \/ /\ etapa'[p] = 4
                /\ resultado'[p] = IF cod = "sucesso" THEN StatusDe(p, ret) ELSE cod
                /\ k < 3 /\ ~ PassaAdiante(p, k, cod, ret)
                /\ ~ (cod = "sucesso" /\ ret = "naoImplementada")
<1> DEFINE cod == codigo'[<<p, k>>]
           ret == retorno'[<<p, k>>]
<1>1. SeguirOperacao(p, k, cod, ret)
  BY DEF Voltar
<1>2. etapa \in [Pedidos -> 0..4] /\ resultado = [r \in Pedidos |-> resultado[r]]
  BY DEF IInv, Tipagem, ContasCertas, ChamadasDefinidas
<1>3. resultado[p] = "nenhum"
  <2>1. etapa[p] = k /\ SemResposta(p)
    BY RespostaDaChamada DEF ContasCertas, Conta
  <2> QED
    BY <2>1 DEF SemResposta
<1>4. k = 3 => ~ PassaAdiante(p, k, cod, ret)
  BY DEF PassaAdiante
<1> QED
  BY <1>1, <1>2, <1>3, <1>4
  DEF SeguirOperacao, OperacaoNaoSuportada, Seguir, Encerrar, RespostaDaRecusa

\* What a system answers, by the kind of the request that reached it.
LEMMA RetornoDaChegada ==
  ASSUME NEW p \in Pedidos, NEW k \in 1..2, ContasCertas, Chegar(p, k)
  PROVE  LET c == <<p, k>>
             l == Lugar(p, k)
         IN  /\ \A d \in Chamadas \ {c} : retorno'[d] = retorno[d]
             /\ transmitidas[c] = 0 /\ c \in Chamadas
             /\ pedido[p].tipo = "transmissao" =>
                  \/ /\ Registrar(l, "autorizada")
                     /\ registro[l] \in {"nenhuma", "loteRecusado"}
                     /\ retorno'[c] \in Autorizadas
                  \/ /\ Registrar(l, "lote")
                     /\ registro[l] \in {"nenhuma", "loteRecusado"}
                     /\ retorno'[c] = "lote"
                  \/ UNCHANGED registro /\ retorno'[c] = "recusada"
             /\ pedido[p].tipo = "cancelamento" =>
                  \/ /\ Registrar(l, "cancelada")
                     /\ registro[l] = "autorizada"
                     /\ retorno'[c] = "concluida"
                  \/ UNCHANGED registro /\ retorno'[c] = "recusada"
             /\ pedido[p].tipo \notin {"transmissao", "cancelamento"} =>
                  /\ UNCHANGED registro
                  /\ retorno'[c] =
                       IF pedido[p].tipo = "lote" THEN RespostaDoLote(registro[l])
                       ELSE IF pedido[p].tipo = "distribuicao" THEN "fila"
                       ELSE RespostaDaConsulta(registro[l])
<1> DEFINE c == <<p, k>>
           l == Lugar(p, k)
<1>1. retorno = [d \in Chamadas |-> retorno[d]] /\ c \in Chamadas
  BY DEF ContasCertas, ChamadasDefinidas, Chamadas
<1>2. \E r : retorno' = [retorno EXCEPT ![c] = r]
  BY PassoDeChegar
<1>3. \A d \in Chamadas \ {c} : retorno'[d] = retorno[d]
  BY <1>1, <1>2
<1>4. transmitidas[c] = 0
  BY DEF Chegar, P!Transmitir
<1>5. ASSUME pedido[p].tipo = "transmissao"
      PROVE  \/ /\ Registrar(l, "autorizada")
                /\ registro[l] \in {"nenhuma", "loteRecusado"}
                /\ retorno'[c] \in Autorizadas
             \/ /\ Registrar(l, "lote")
                /\ registro[l] \in {"nenhuma", "loteRecusado"}
                /\ retorno'[c] = "lote"
             \/ UNCHANGED registro /\ retorno'[c] = "recusada"
  <2>1. ReceberEmissao(c, l)
    BY <1>5 DEF Chegar
  <2> QED
    BY <1>1, <2>1 DEF ReceberEmissao, Autorizadas
<1>6. ASSUME pedido[p].tipo = "cancelamento"
      PROVE  \/ /\ Registrar(l, "cancelada")
                /\ registro[l] = "autorizada"
                /\ retorno'[c] = "concluida"
             \/ UNCHANGED registro /\ retorno'[c] = "recusada"
  <2>1. ReceberCancelamento(c, l)
    BY <1>6 DEF Chegar
  <2> QED
    BY <1>1, <2>1 DEF ReceberCancelamento
<1>7. ASSUME pedido[p].tipo \notin {"transmissao", "cancelamento"}
      PROVE  /\ UNCHANGED registro
             /\ retorno'[c] =
                  IF pedido[p].tipo = "lote" THEN RespostaDoLote(registro[l])
                  ELSE IF pedido[p].tipo = "distribuicao" THEN "fila"
                  ELSE RespostaDaConsulta(registro[l])
  <2>1. ReceberConsulta(c, pedido[p].tipo, l)
    BY <1>7 DEF Chegar
  <2> QED
    BY <1>1, <2>1 DEF ReceberConsulta
<1> QED
  BY <1>1, <1>3, <1>4, <1>5, <1>6, <1>7

\* The answers of the other calls stay.
LEMMA OutrasVoltam ==
  ASSUME NEW p \in Pedidos, NEW k \in 1..3, ContasCertas, Voltar(p, k),
         NEW q \in Pedidos, NEW j \in 1..3, q # p \/ j # k
  PROVE  retorno'[<<q, j>>] = retorno[<<q, j>>] /\ codigo'[<<q, j>>] = codigo[<<q, j>>]
<1>1. <<q, j>> \in Chamadas \ {<<p, k>>}
  BY DEF Chamadas
<1> QED
  BY <1>1, RespostaDaChamada

LEMMA OutrasChegam ==
  ASSUME NEW p \in Pedidos, NEW k \in 1..2, ContasCertas, Chegar(p, k),
         NEW q \in Pedidos, NEW j \in 1..3, q # p \/ j # k
  PROVE  retorno'[<<q, j>>] = retorno[<<q, j>>]
<1>1. <<q, j>> \in Chamadas \ {<<p, k>>}
  BY DEF Chamadas
<1> QED
  BY <1>1, RetornoDaChegada

-----------------------------------------------------------------------------
(* Types.                                                                  *)

LEMMA StatusConhecido ==
  ASSUME NEW p, NEW ret
  PROVE  StatusDe(p, ret) \in Resultados \ {"nenhum"}
BY DEF StatusDe, StatusDaEmissao, StatusDoCancelamento, StatusDaConsulta, Resultados

\* How a generation goes on when a call of it is answered.
LEMMA DesfechoDaGeracao ==
  ASSUME NEW p \in Pedidos, NEW k \in 1..3, IInv, ContasCertas, Voltar(p, k),
         pedido[p].tipo = "xml"
  PROVE  \/ /\ etapa'[p] = 2 /\ resultado'[p] = "nenhum"
            /\ UNCHANGED xml
         \/ /\ etapa'[p] = 4
            /\ resultado'[p] \in {codigo'[<<p, k>>], "xml_nao_montado",
                 "layout_divergente", "regras_de_negocio", "entregue"}
<1>1. SeguirXML(p, k, codigo'[<<p, k>>])
  BY DEF Voltar
<1>2. etapa \in [Pedidos -> 0..4] /\ resultado = [r \in Pedidos |-> resultado[r]]
  BY DEF IInv, Tipagem, ContasCertas, ChamadasDefinidas
<1>3. resultado[p] = "nenhum"
  <2>1. etapa[p] = k /\ SemResposta(p)
    BY RespostaDaChamada DEF ContasCertas, Conta
  <2> QED
    BY <2>1 DEF SemResposta
<1>4. Defeito(p) \in {"xml_nao_montado", "layout_divergente", "regras_de_negocio",
                      "nenhum"}
  BY DEF Defeito
<1> QED
  BY <1>1, <1>2, <1>3, <1>4 DEF SeguirXML, Seguir, Encerrar

LEMMA InitTipos == Init => TypeOK
<1> SUFFICES ASSUME Init PROVE TypeOK
  OBVIOUS
<1>1. /\ codigo \in [Chamadas -> P!Codigos \union {"pendente"}]
      /\ transmitidas \in [Chamadas -> 0..1]
  BY DEF Init, P!Init
<1>2. xml.tpAmb = "nenhum" /\ hoje \in 0..MaxHoje /\ prometido \in Sistemas
  BY DEF Init, SemXML, Sistemas
<1>3. \A p \in Pedidos : pedido[p].tipo = "nenhum" /\ etapa[p] = 0
                         /\ resultado[p] = "nenhum"
  BY DEF Init, SemPedido
<1>4. /\ etapa \in [Pedidos -> 0..4] /\ resultado \in [Pedidos -> Resultados]
      /\ havia \in [Pedidos -> BOOLEAN]
      /\ registro \in [Lugares -> SituacoesNoFisco] /\ filas \subseteq Lugares
  BY DEF Init, Resultados, SituacoesNoFisco
<1>5. emissor \in Emissores /\ regime \in OpSimpNac
  BY DEF Init
<1> QED
  BY <1>1, <1>2, <1>3, <1>4, <1>5 DEF TypeOK

\* A request begins: nothing of the others changes, and its first call is out.
LEMMA PassoDeComecar ==
  ASSUME NEW p \in Pedidos, IInv, Comecar(p)
  PROVE  /\ etapa[p] = 0 /\ pedido[p].tipo = "nenhum"
         /\ UNCHANGED <<hoje, emissor, regime, xml, prometido, retorno, resultado,
                        registro, filas, codigo, transmitidas>>
         /\ \A q \in Pedidos \ {p} : pedido'[q] = pedido[q] /\ etapa'[q] = etapa[q]
         /\ pedido'[p].tipo \in Tipos /\ Cabe(pedido'[p].tipo)
         /\ etapa'[p] = PrimeiraChamada(pedido'[p].tipo)
         /\ etapa'[p] \in 1..2
         /\ pedido'[p].ambiente \in Ambientes
         /\ havia' = [havia EXCEPT ![p] =
              \E t \in Sistemas : registro[<<t, pedido'[p].ambiente>>] \in TemNota]
<1>1. PICK tipo \in Tipos, a \in Informados, s \in Notas \union {Sefaz},
           comp \in Pedidas \union {SemXML.dCompet} :
        /\ Cabe(tipo)
        /\ pedido' = [pedido EXCEPT ![p] = Requisicao(tipo, a, comp, s)]
        /\ etapa'  = [etapa EXCEPT ![p] = PrimeiraChamada(tipo)]
        /\ havia'  = [havia EXCEPT ![p] =
                        \E t \in Sistemas : registro[<<t, a>>] \in TemNota]
  BY DEF Comecar
<1>2. etapa[p] = 0 /\ pedido[p].tipo = "nenhum"
  BY DEF Comecar, IInv, UmaGeracao
<1>3. PrimeiraChamada(tipo) \in 1..2
  BY DEF PrimeiraChamada
<1>4. pedido \in [Pedidos -> Requisicoes] /\ etapa \in [Pedidos -> 0..4]
  BY DEF IInv, Tipagem
<1>5. pedido'[p].tipo = tipo /\ pedido'[p].ambiente = a
      /\ etapa'[p] = PrimeiraChamada(tipo)
  BY <1>1, <1>4 DEF Requisicao
<1>6. \A q \in Pedidos \ {p} : pedido'[q] = pedido[q] /\ etapa'[q] = etapa[q]
  BY <1>1, <1>4
<1>7. UNCHANGED <<hoje, emissor, regime, xml, prometido, retorno, resultado,
                  registro, filas, codigo, transmitidas>>
  BY DEF Comecar
<1> QED
  BY <1>1, <1>2, <1>3, <1>5, <1>6, <1>7

LEMMA ComecarTipos ==
  ASSUME NEW p \in Pedidos, IInv, IInv', TypeOK, Comecar(p)
  PROVE  TypeOK'
<1>1. havia' \in [Pedidos -> BOOLEAN]
  BY PassoDeComecar DEF TypeOK
<1>2. ASSUME NEW q \in Pedidos
      PROVE  /\ pedido'[q].tipo \in Tipos \union {"nenhum"}
             /\ etapa'[q] = 0 <=> pedido'[q].tipo = "nenhum"
             /\ etapa'[q] = 4 <=> resultado'[q] # "nenhum"
  <2>1. CASE q = p
    BY <2>1, PassoDeComecar DEF TypeOK, TodosOsTipos
  <2>2. CASE q # p
    BY <2>2, PassoDeComecar DEF TypeOK
  <2> QED
    BY <2>1, <2>2
<1>3. etapa' \in [Pedidos -> 0..4] /\ registro' \in [Lugares -> SituacoesNoFisco]
  BY DEF IInv, Tipagem
<1> QED
  BY <1>1, <1>2, <1>3, PassoDeComecar DEF TypeOK

LEMMA ChegarTipos ==
  ASSUME NEW p \in Pedidos, NEW k \in 1..2, IInv', ContasCertas', TypeOK, Chegar(p, k)
  PROVE  TypeOK'
<1>1. UNCHANGED <<hoje, emissor, regime, xml, prometido, pedido, etapa, resultado,
                  havia, filas>>
  BY DEF Chegar, cliente
<1>2. registro' \in [Lugares -> SituacoesNoFisco]
  BY DEF IInv, Tipagem
<1>3. /\ codigo' \in [Chamadas -> P!Codigos \union {"pendente"}]
      /\ transmitidas' \in [Chamadas -> 0..1]
  BY DEF ContasCertas, ChamadasDefinidas
<1> QED
  BY <1>1, <1>2, <1>3 DEF TypeOK

LEMMA VoltarTipos ==
  ASSUME NEW p \in Pedidos, NEW k \in 1..3, IInv, IInv', ContasCertas,
         ContasCertas', TypeOK, Voltar(p, k)
  PROVE  TypeOK'
<1>1. etapa[p] = k /\ UNCHANGED <<hoje, emissor, regime, pedido, registro, havia>>
  BY DEF Voltar, cliente
<1>2. prometido' \in Sistemas /\ xml'.tpAmb \in Ambientes \union {"sem", "nenhum"}
  <2>1. SistemaDe(p, 2) \in Sistemas
    BY LugarExiste DEF IInv
  <2>2. DocumentoGerado(p).tpAmb \in Ambientes \union {"sem"}
    BY DEF DocumentoGerado, DocumentoDa, SemXML, IInv, Tipagem, Requisicoes
  <2> QED
    BY <2>1, <2>2, PassoDeVoltar DEF TypeOK
<1>3. filas' \subseteq Lugares
  BY LugarExiste DEF Voltar, TypeOK, IInv
<1>4. codigo'[<<p, k>>] \in P!Codigos /\ "nenhum" \notin P!Codigos
      /\ P!Codigos \subseteq Resultados
  BY RespostaDaChamada DEF P!Codigos, Resultados
<1>5. /\ etapa'[p] \in {2, 3, 4}
      /\ etapa'[p] = 4 <=> resultado'[p] # "nenhum"
      /\ resultado'[p] \in Resultados
  <2>1. CASE pedido[p].tipo = "xml"
    <3>1. codigo'[<<p, k>>] \in Resultados \ {"nenhum"}
      BY <1>4
    <3>2. {"xml_nao_montado", "layout_divergente", "regras_de_negocio", "entregue"}
            \subseteq Resultados \ {"nenhum"}
      BY DEF Resultados
    <3>3. \/ etapa'[p] = 2 /\ resultado'[p] = "nenhum"
          \/ etapa'[p] = 4 /\ resultado'[p] \in Resultados \ {"nenhum"}
      BY <2>1, <3>1, <3>2, DesfechoDaGeracao
    <3> QED
      BY <3>3 DEF Resultados
  <2>2. CASE pedido[p].tipo # "xml"
    <3> DEFINE cod == codigo'[<<p, k>>]
               ret == retorno'[<<p, k>>]
    <3>1. StatusDe(p, ret) \in Resultados \ {"nenhum"} /\ cod \in Resultados \ {"nenhum"}
      BY <1>4, StatusConhecido
    <3>2. \/ etapa'[p] \in {2, 3} /\ resultado'[p] = "nenhum"
          \/ etapa'[p] = 4 /\ resultado'[p] = "operacao_nao_suportada"
          \/ etapa'[p] = 4 /\ resultado'[p] = IF cod = "sucesso" THEN StatusDe(p, ret)
                                              ELSE cod
      BY <2>2, DesfechoDaChamada
    <3> HIDE DEF cod, ret
    <3> QED
      BY <3>1, <3>2 DEF Resultados, P!Codigos
  <2> QED
    BY <2>1, <2>2
<1>6. ASSUME NEW q \in Pedidos
      PROVE  /\ pedido'[q].tipo \in Tipos \union {"nenhum"}
             /\ etapa'[q] = 0 <=> pedido'[q].tipo = "nenhum"
             /\ etapa'[q] = 4 <=> resultado'[q] # "nenhum"
             /\ resultado'[q] \in Resultados
  <2>1. /\ pedido[q].tipo \in Tipos \union {"nenhum"}
        /\ etapa[q] = 0 <=> pedido[q].tipo = "nenhum"
        /\ etapa[q] = 4 <=> resultado[q] # "nenhum"
        /\ resultado[q] \in Resultados
    BY DEF TypeOK
  <2>2. CASE q = p
    BY <1>1, <1>5, <2>1, <2>2
  <2>3. CASE q # p
    BY <1>1, <2>1, <2>3, OutrosPedidos
  <2> QED
    BY <2>2, <2>3
<1>7. /\ codigo' \in [Chamadas -> P!Codigos \union {"pendente"}]
      /\ transmitidas' \in [Chamadas -> 0..1]
      /\ resultado' \in [Pedidos -> Resultados]
  BY <1>6 DEF ContasCertas, ChamadasDefinidas
<1>8. etapa' \in [Pedidos -> 0..4] /\ registro' \in [Lugares -> SituacoesNoFisco]
  BY DEF IInv, Tipagem
<1> QED
  BY <1>1, <1>2, <1>3, <1>6, <1>7, <1>8 DEF TypeOK

\* Steps of the systems and of the calendar.
Alheio ==
  UNCHANGED <<emissor, regime, xml, prometido, pedido, etapa, retorno, resultado,
              havia, filas, codigo, transmitidas>>

LEMMA PassoAlheio ==
  ProcessarLote \/ PassarDia \/ Fim \/ UNCHANGED vars => Alheio
BY DEF ProcessarLote, PassarDia, Fim, cliente, vars, Alheio

Base == IInv /\ ContasCertas /\ TypeOK

LEMMA NextTipos ==
  ASSUME IInv, IInv', ContasCertas, ContasCertas', TypeOK, [Next]_vars
  PROVE  TypeOK'
<1>1. CASE \E p \in Pedidos : Comecar(p)
  BY <1>1, ComecarTipos
<1>2. CASE \E p \in Pedidos, k \in 1..2 : Chegar(p, k)
  BY <1>2, ChegarTipos
<1>3. CASE \E p \in Pedidos, k \in 1..3 : Voltar(p, k)
  BY <1>3, VoltarTipos
<1>4. CASE ProcessarLote \/ PassarDia \/ Fim \/ UNCHANGED vars
  <2>1. Alheio
    BY <1>4, PassoAlheio
  <2>2. hoje' \in 0..MaxHoje
    BY <1>4 DEF ProcessarLote, PassarDia, Fim, vars, TypeOK
  <2>3. registro' \in [Lugares -> SituacoesNoFisco]
    BY DEF IInv, Tipagem
  <2> QED
    BY <2>1, <2>2, <2>3 DEF TypeOK, Alheio
<1> QED
  BY <1>1, <1>2, <1>3, <1>4 DEF Next

\* Every variable of Documento keeps its type: in particular a request has an
\* answer exactly when its handler is through, and each call a known code.
THEOREM EspecTiposDoDocumento == Spec => []TypeOK
<1>1. IInv /\ IInv' /\ ContasCertas /\ ContasCertas' /\ TypeOK /\ [Next]_vars => TypeOK'
  BY NextTipos
<1> QED
  BY <1>1, InitTipos, EspecDocumentoNoLugar, SempreContas, PTL DEF Spec

LEMMA SempreBase == Spec => []Base
  BY EspecDocumentoNoLugar, SempreContas, EspecTiposDoDocumento, PTL DEF Base

-----------------------------------------------------------------------------
(* One queue for the distributions of a municipality.                      *)

\* The queue that call k of a distribution asks, and whether it is there.
SistemaDaFila(k) ==
  LET r == RotaDoMunicipio(emissor)
  IN  Sistema(IF k = 1 THEN r ELSE Nacional(r))

TemFila(k) == <<SistemaDaFila(k), "distribuicao">> \notin SemServico

FilaDoMunicipio == SistemaDaFila(IF TemFila(1) THEN 1 ELSE 2)

\* Only a class that has no distribution hands it over: the ADN is asked, and
\* answers, in municipalities whose own class never does.
UmaFila ==
  /\ \A l \in filas : emissor # Sefaz /\ l[1] = FilaDoMunicipio
  /\ \A p \in Pedidos, k \in 1..3 :
       retorno[<<p, k>>] = "fila" =>
         pedido[p].tipo = "distribuicao" /\ k # 3 /\ TemFila(k)
  /\ \A p \in DoTipo("distribuicao") :
       /\ emissor # Sefaz
       /\ retorno[<<p, 1>>] = "naoImplementada" => ~ TemFila(1)
       /\ etapa[p] = 2 => ~ TemFila(1)

LEMMA ADistribuicaoPedeAFila ==
  ASSUME NEW p, NEW k \in 1..2, pedido[p].tipo = "distribuicao", emissor # Sefaz
  PROVE  /\ SistemaDe(p, k) = SistemaDaFila(k)
         /\ Implementa(p, k) <=> TemFila(k)
<1>1. RotaDe(p, k) = IF k = 1 THEN RotaDoMunicipio(emissor)
                     ELSE Nacional(RotaDoMunicipio(emissor))
  BY DEF RotaDe
<1>2. SistemaDe(p, k) = SistemaDaFila(k)
  BY <1>1 DEF SistemaDe, SistemaDaFila
<1> QED
  BY <1>2 DEF Implementa, TemFila

LEMMA MesmaFila ==
  UNCHANGED emissor => FilaDoMunicipio' = FilaDoMunicipio
                       /\ \A k : TemFila(k)' <=> TemFila(k)
BY DEF FilaDoMunicipio, TemFila, SistemaDaFila

LEMMA ComecarFila ==
  ASSUME NEW p \in Pedidos, Base, UmaFila, Comecar(p)
  PROVE  UmaFila'
<1> USE PassoDeComecar DEF Base
<1>1. \A l \in filas' : emissor' # Sefaz /\ l[1] = FilaDoMunicipio'
  BY MesmaFila DEF UmaFila
<1>2. \A k \in 1..3 : retorno[<<p, k>>] = "nenhum"
  BY DEF ContasCertas, Conta, SemResposta
<1>3. ASSUME NEW q \in Pedidos, NEW k \in 1..3, retorno'[<<q, k>>] = "fila"
      PROVE  pedido'[q].tipo = "distribuicao" /\ k # 3 /\ TemFila(k)'
  <2>1. q # p /\ retorno[<<q, k>>] = "fila"
    BY <1>2, <1>3
  <2>2. pedido[q].tipo = "distribuicao" /\ k # 3 /\ TemFila(k)
    BY <2>1, Zenon DEF UmaFila
  <2> QED
    BY <2>1, <2>2, MesmaFila
<1>4. ASSUME NEW q \in Pedidos, pedido'[q].tipo = "distribuicao"
      PROVE  /\ emissor' # Sefaz
             /\ retorno'[<<q, 1>>] = "naoImplementada" => ~ TemFila(1)'
             /\ etapa'[q] = 2 => ~ TemFila(1)'
  <2>1. CASE q = p
    BY <1>2, <1>4, <2>1 DEF Cabe, PrimeiraChamada
  <2>2. CASE q # p
    BY <1>4, <2>2, MesmaFila DEF UmaFila, DoTipo
  <2> QED
    BY <2>1, <2>2
<1> QED
  BY <1>1, <1>3, <1>4 DEF UmaFila, DoTipo

LEMMA ChegarFila ==
  ASSUME NEW p \in Pedidos, NEW k \in 1..2, Base, UmaFila, Chegar(p, k)
  PROVE  UmaFila'
<1>0. ContasCertas
  BY DEF Base
<1>1. UNCHANGED <<emissor, pedido, etapa, filas>> /\ Implementa(p, k)
      /\ pedido[p].tipo # "xml"
  BY DEF Chegar, cliente
<1>2. \A q \in Pedidos, j \in 1..3 :
        q # p \/ j # k => retorno'[<<q, j>>] = retorno[<<q, j>>]
  BY <1>0, OutrasChegam, Zenon
<1>3. retorno'[<<p, k>>] = "fila" => pedido[p].tipo = "distribuicao"
  <2>1. CASE pedido[p].tipo \in {"transmissao", "cancelamento"}
    BY <1>0, <2>1, RetornoDaChegada DEF Autorizadas
  <2>2. CASE pedido[p].tipo \notin {"transmissao", "cancelamento"}
    <3>1. RespostaDoLote(registro[Lugar(p, k)]) # "fila"
          /\ RespostaDaConsulta(registro[Lugar(p, k)]) # "fila"
      BY DEF RespostaDoLote, RespostaDaConsulta
    <3> QED
      BY <1>0, <2>2, <3>1, RetornoDaChegada
  <2> QED
    BY <2>1, <2>2
<1>4. pedido[p].tipo = "distribuicao" =>
        emissor # Sefaz /\ TemFila(k) /\ retorno'[<<p, k>>] = "fila"
  BY <1>0, <1>1, RetornoDaChegada, ADistribuicaoPedeAFila DEF UmaFila, DoTipo
<1>5. ASSUME NEW q \in Pedidos, NEW j \in 1..3, retorno'[<<q, j>>] = "fila"
      PROVE  pedido'[q].tipo = "distribuicao" /\ j # 3 /\ TemFila(j)'
  <2>1. CASE q = p /\ j = k
    BY <1>1, <1>3, <1>4, <1>5, <2>1, MesmaFila
  <2>2. CASE ~ (q = p /\ j = k)
    BY <1>1, <1>2, <1>5, <2>2, MesmaFila DEF UmaFila
  <2> QED
    BY <2>1, <2>2
<1>6. ASSUME NEW q \in DoTipo("distribuicao"), retorno'[<<q, 1>>] = "naoImplementada"
      PROVE  ~ TemFila(1)
  <2>1. q \in Pedidos /\ pedido[q].tipo = "distribuicao"
    BY DEF DoTipo
  <2>2. ~ (q = p /\ k = 1)
    BY <1>4, <1>6, <2>1
  <2>3. retorno'[<<q, 1>>] = retorno[<<q, 1>>]
    <3>1. q # p \/ 1 # k
      BY <2>2
    <3>2. 1 \in 1..3
      OBVIOUS
    <3> QED
      BY <1>2, <2>1, <3>1, <3>2, Zenon
  <2> QED
    BY <1>6, <2>3, Zenon DEF UmaFila
<1> QED
  BY <1>1, <1>5, <1>6, MesmaFila DEF UmaFila, DoTipo

LEMMA VoltarFila ==
  ASSUME NEW p \in Pedidos, NEW k \in 1..3, Base, UmaFila, Voltar(p, k)
  PROVE  UmaFila'
<1> DEFINE cod == codigo'[<<p, k>>]
           ret == retorno'[<<p, k>>]
<1>0. IInv /\ ContasCertas
  BY DEF Base
<1>1. etapa[p] = k /\ UNCHANGED <<emissor, pedido>>
  BY DEF Voltar, cliente
<1>2. ret = "fila" => retorno[<<p, k>>] = "fila"
  BY <1>0, RetornoDaChamada DEF Caseiras
<1>3. ret = "fila" => /\ pedido[p].tipo = "distribuicao" /\ emissor # Sefaz
                      /\ k \in 1..2 /\ TemFila(k) /\ Lugar(p, k)[1] = FilaDoMunicipio
  <2> SUFFICES ASSUME ret = "fila"
               PROVE  /\ pedido[p].tipo = "distribuicao" /\ emissor # Sefaz
                      /\ k \in 1..2 /\ TemFila(k) /\ Lugar(p, k)[1] = FilaDoMunicipio
    OBVIOUS
  <2>1. pedido[p].tipo = "distribuicao" /\ k \in 1..2 /\ TemFila(k)
    <3>1. retorno[<<p, k>>] = "fila"
      BY <1>2
    <3>2. pedido[p].tipo = "distribuicao" /\ k # 3 /\ TemFila(k)
      BY <3>1, Zenon DEF UmaFila
    <3> QED
      BY <3>2
  <2>2. emissor # Sefaz /\ (k = 2 => ~ TemFila(1))
    BY <1>1, <2>1 DEF UmaFila, DoTipo
  <2>3. Lugar(p, k)[1] = SistemaDaFila(k)
    BY <2>1, <2>2, ADistribuicaoPedeAFila DEF Lugar
  <2> QED
    BY <2>1, <2>2, <2>3 DEF FilaDoMunicipio
<1>4. \A l \in filas' : emissor' # Sefaz /\ l[1] = FilaDoMunicipio'
  <2>1. filas' \subseteq filas \union IF ret = "fila" THEN {Lugar(p, k)} ELSE {}
    BY DEF Voltar
  <2> QED
    BY <1>1, <1>3, <2>1, MesmaFila DEF UmaFila
<1>5. \A q \in Pedidos, j \in 1..3 :
        q # p \/ j # k => retorno'[<<q, j>>] = retorno[<<q, j>>]
  BY <1>0, OutrasVoltam, Zenon
<1>6. ASSUME NEW q \in Pedidos, NEW j \in 1..3, retorno'[<<q, j>>] = "fila"
      PROVE  pedido'[q].tipo = "distribuicao" /\ j # 3 /\ TemFila(j)'
  <2>1. CASE q = p /\ j = k
    BY <1>1, <1>3, <1>6, <2>1, MesmaFila
  <2>2. CASE ~ (q = p /\ j = k)
    BY <1>1, <1>5, <1>6, <2>2, MesmaFila DEF UmaFila
  <2> QED
    BY <2>1, <2>2
<1>7. ASSUME pedido[p].tipo = "distribuicao", k = 1, ret = "naoImplementada"
      PROVE  ~ TemFila(1)
  <2>1. CASE retorno[<<p, 1>>] = "naoImplementada"
    BY <1>7, <2>1 DEF UmaFila, DoTipo
  <2>2. CASE ret \in DaLib(p, k)
    <3>1. ~ Implementa(p, 1)
      BY <1>7, <2>2 DEF DaLib
    <3> QED
      BY <1>7, <3>1, ADistribuicaoPedeAFila DEF UmaFila, DoTipo
  <2> QED
    BY <1>0, <1>7, <2>1, <2>2, RetornoDaChamada
<1>8. ASSUME NEW q \in Pedidos, pedido[q].tipo = "distribuicao",
             retorno'[<<q, 1>>] = "naoImplementada"
      PROVE  ~ TemFila(1)
  <2>1. CASE q = p /\ k = 1
    BY <1>7, <1>8, <2>1
  <2>2. CASE ~ (q = p /\ k = 1)
    <3>1. q # p \/ 1 # k
      BY <2>2
    <3>2. 1 \in 1..3
      OBVIOUS
    <3>3. retorno'[<<q, 1>>] = retorno[<<q, 1>>]
      BY <1>5, <3>1, <3>2, Zenon
    <3> QED
      BY <1>8, <3>3, Zenon DEF UmaFila, DoTipo
  <2> QED
    BY <2>1, <2>2
<1>9. ASSUME NEW q \in Pedidos, pedido[q].tipo = "distribuicao", etapa'[q] = 2
      PROVE  ~ TemFila(1)
  <2>1. CASE q = p
    <3>1. PassaAdiante(p, k, cod, ret)
      <4>1. pedido[p].tipo # "xml" /\ etapa'[p] = 2
        BY <1>9, <2>1, Zenon
      <4> QED
        <5>1. etapa'[p] \in {3, 4} \/ PassaAdiante(p, k, cod, ret)
          BY <1>0, <4>1, DesfechoDaChamada, Zenon
        <5> QED
          BY <4>1, <5>1
    <3>2. k = 1 /\ ret = "naoImplementada"
      BY <1>9, <2>1, <3>1 DEF PassaAdiante, PassaParaOADN, OperacaoNaoSuportada
    <3> QED
      BY <1>7, <1>9, <2>1, <3>2
  <2>2. CASE q # p
    <3>1. etapa[q] = 2 /\ q \in DoTipo("distribuicao")
      BY <1>0, <1>9, <2>2, OutrosPedidos DEF DoTipo
    <3> QED
      BY <3>1, Zenon DEF UmaFila
  <2> QED
    BY <2>1, <2>2
<1> QED
  BY <1>1, <1>4, <1>6, <1>8, <1>9, MesmaFila DEF UmaFila, DoTipo

LEMMA NextFila == Base /\ UmaFila /\ [Next]_vars => UmaFila'
<1> SUFFICES ASSUME Base, UmaFila, [Next]_vars PROVE UmaFila'
  OBVIOUS
<1>1. CASE \E p \in Pedidos : Comecar(p)
  BY <1>1, ComecarFila
<1>2. CASE \E p \in Pedidos, k \in 1..2 : Chegar(p, k)
  BY <1>2, ChegarFila
<1>3. CASE \E p \in Pedidos, k \in 1..3 : Voltar(p, k)
  BY <1>3, VoltarFila
<1>4. CASE ProcessarLote \/ PassarDia \/ Fim \/ UNCHANGED vars
  <2>1. UNCHANGED <<emissor, pedido, etapa, retorno, filas>>
    BY <1>4 DEF ProcessarLote, PassarDia, Fim, cliente, vars
  <2> QED
    BY <2>1, MesmaFila DEF UmaFila, DoTipo
<1> QED
  BY <1>1, <1>2, <1>3, <1>4 DEF Next

\* All the distributions of a municipality are answered by one queue, whatever
\* fails between them, so the NSU the client keeps stays an index of that queue
\* (nfse/http.go, handleDistribuicao).
THEOREM EspecCursorNaoTrocaDeFila == Spec => []CursorNaoTrocaDeFila
<1>1. Init => UmaFila
  BY DEF Init, UmaFila, DoTipo, SemPedido, Chamadas
<1>2. UmaFila => CursorNaoTrocaDeFila
  <2> SUFFICES ASSUME UmaFila PROVE Cardinality({l[1] : l \in filas}) <= 1
    BY DEF CursorNaoTrocaDeFila
  <2>1. {l[1] : l \in filas} \subseteq {FilaDoMunicipio}
    BY DEF UmaFila
  <2>2. IsFiniteSet({FilaDoMunicipio}) /\ Cardinality({FilaDoMunicipio}) = 1
    BY FS_Singleton
  <2>3. Cardinality({l[1] : l \in filas}) <= Cardinality({FilaDoMunicipio})
    BY <2>1, <2>2, FS_Subset
  <2> QED
    BY <2>2, <2>3
<1> QED
  BY <1>1, <1>2, NextFila, SempreBase, PTL DEF Spec

-----------------------------------------------------------------------------
(* What the systems keep.                                                  *)

LEMMA RegistroAvanca ==
  ASSUME Tipagem, NEW m, NEW sit, Registrar(m, sit), sit # "nenhuma",
         m \in Lugares /\ registro[m] \in TemNota => sit \in TemNota,
         NEW l \in Lugares
  PROVE  /\ registro[l] \in TemNota => registro'[l] \in TemNota
         /\ registro[l] # "nenhuma" => registro'[l] # "nenhuma"
<1>1. registro'[l] = IF l = m THEN sit ELSE registro[l]
  BY DEF Tipagem, Registrar
<1> QED
  BY <1>1

\* A note goes on being one, and a system forgets no document it has taken in.
LEMMA NotasFicam ==
  ASSUME Base, [Next]_vars, NEW l \in Lugares
  PROVE  /\ registro[l] \in TemNota => registro'[l] \in TemNota
         /\ registro[l] # "nenhuma" => registro'[l] # "nenhuma"
<1>0. Tipagem /\ ContasCertas
  BY DEF Base, IInv
<1>1. ASSUME NEW p \in Pedidos, NEW k \in 1..2, Chegar(p, k)
      PROVE  /\ registro[l] \in TemNota => registro'[l] \in TemNota
             /\ registro[l] # "nenhuma" => registro'[l] # "nenhuma"
  <2> DEFINE m == Lugar(p, k)
  <2>1. \/ UNCHANGED registro
        \/ Registrar(m, "autorizada")
        \/ Registrar(m, "lote") /\ registro[m] \in {"nenhuma", "loteRecusado"}
        \/ Registrar(m, "cancelada")
    <3>1. CASE pedido[p].tipo = "transmissao"
      BY <1>0, <1>1, <3>1, RetornoDaChegada, Zenon
    <3>2. CASE pedido[p].tipo = "cancelamento"
      BY <1>0, <1>1, <3>2, RetornoDaChegada, Zenon
    <3>3. CASE pedido[p].tipo \notin {"transmissao", "cancelamento"}
      BY <1>0, <1>1, <3>3, RetornoDaChegada, Zenon
    <3> QED
      BY <3>1, <3>2, <3>3
  <2> HIDE DEF m
  <2>2. CASE UNCHANGED registro
    BY <2>2
  <2>3. CASE Registrar(m, "autorizada") \/ Registrar(m, "cancelada")
    BY <1>0, <2>3, RegistroAvanca DEF TemNota
  <2>4. CASE Registrar(m, "lote") /\ registro[m] \in {"nenhuma", "loteRecusado"}
    BY <1>0, <2>4, RegistroAvanca DEF TemNota
  <2> QED
    BY <2>1, <2>2, <2>3, <2>4
<1>2. CASE ProcessarLote
  <2>1. PICK m \in Lugares, sit \in {"autorizada", "loteRecusado"} :
          registro[m] = "lote" /\ Registrar(m, sit)
    BY <1>2 DEF ProcessarLote
  <2> QED
    BY <1>0, <2>1, RegistroAvanca DEF TemNota
<1>3. CASE \/ \E p \in Pedidos : Comecar(p)
           \/ \E p \in Pedidos, k \in 1..3 : Voltar(p, k)
           \/ PassarDia \/ Fim \/ UNCHANGED vars
  <2>1. UNCHANGED registro
    BY <1>3 DEF Comecar, Voltar, PassarDia, Fim, vars
  <2> QED
    BY <2>1
<1> QED
  BY <1>1, <1>2, <1>3 DEF Next

HaNota == \E l \in Lugares : registro[l] \in TemNota

LEMMA HaNotaFica == Base /\ [Next]_vars /\ HaNota => HaNota'
BY NotasFicam DEF HaNota, Lugares, Sistemas

-----------------------------------------------------------------------------
(* Who was told of a note has one.                                         *)

Acharam == Autorizadas \union {"encontrada"}

\* Whatever says that there is a note was said by a system that had one.
NotaDita ==
  /\ \A p \in Pedidos, k \in 1..3 : retorno[<<p, k>>] \in Acharam => HaNota
  /\ \A p \in Pedidos : resultado[p] \in {"autorizado", "encontrada"} => HaNota

LEMMA ChegarNota ==
  ASSUME NEW p \in Pedidos, NEW k \in 1..2, Base, NotaDita, Chegar(p, k),
         HaNota => HaNota'
  PROVE  NotaDita'
<1> DEFINE l == Lugar(p, k)
           ret == retorno'[<<p, k>>]
<1>0. Tipagem /\ ContasCertas /\ UNCHANGED resultado
  BY DEF Base, IInv, Chegar
<1>1. l \in Lugares
  BY <1>0, LugarExiste
<1>2. ret \in Acharam => HaNota'
  <2>1. CASE pedido[p].tipo = "transmissao"
    <3>1. \/ Registrar(l, "autorizada")
          \/ ret \in {"lote", "recusada"}
      BY <1>0, <2>1, RetornoDaChegada, Zenon
    <3>2. ASSUME Registrar(l, "autorizada") PROVE HaNota'
      <4>1. registro'[l] = "autorizada"
        BY <1>0, <1>1, <3>2 DEF Registrar, Tipagem
      <4> QED
        BY <1>1, <4>1 DEF HaNota, TemNota, Lugares, Sistemas
    <3> QED
      BY <3>1, <3>2 DEF Acharam, Autorizadas
  <2>2. CASE pedido[p].tipo = "cancelamento"
    <3>1. ret \in {"concluida", "recusada"}
      BY <1>0, <2>2, RetornoDaChegada, Zenon
    <3> QED
      BY <3>1 DEF Acharam, Autorizadas
  <2>3. CASE pedido[p].tipo \notin {"transmissao", "cancelamento"}
    <3>1. ret \in {RespostaDoLote(registro[l]), "fila", RespostaDaConsulta(registro[l])}
      BY <1>0, <2>3, RetornoDaChegada, Zenon
    <3>2. ASSUME ret \in Acharam PROVE registro[l] \in TemNota
      BY <3>1, <3>2
      DEF RespostaDoLote, RespostaDaConsulta, Acharam, Autorizadas
    <3> QED
      BY <1>1, <3>2 DEF HaNota
  <2> QED
    BY <2>1, <2>2, <2>3
<1>3. ASSUME NEW q \in Pedidos, NEW j \in 1..3, retorno'[<<q, j>>] \in Acharam
      PROVE  HaNota'
  <2>1. CASE q = p /\ j = k
    BY <1>2, <1>3, <2>1
  <2>2. CASE q # p \/ j # k
    <3>1. retorno'[<<q, j>>] = retorno[<<q, j>>]
      BY <1>0, <2>2, OutrasChegam, Zenon
    <3> QED
      BY <1>3, <3>1, Zenon DEF NotaDita, Acharam, Autorizadas
  <2> QED
    BY <2>1, <2>2
<1> QED
  BY <1>0, <1>3 DEF NotaDita, Acharam, Autorizadas

LEMMA VoltarNota ==
  ASSUME NEW p \in Pedidos, NEW k \in 1..3, Base, NotaDita, Voltar(p, k),
         HaNota => HaNota'
  PROVE  NotaDita'
<1> DEFINE cod == codigo'[<<p, k>>]
           ret == retorno'[<<p, k>>]
<1>0. IInv /\ ContasCertas
  BY DEF Base
<1>1. ret \in Acharam => HaNota'
  <2>1. ret \in Acharam => retorno[<<p, k>>] \in Acharam
    <3>1. ret \in {retorno[<<p, k>>]} \union Caseiras
      BY <1>0, RetornoDaChamada, Zenon
    <3> QED
      BY <3>1 DEF Acharam, Autorizadas, Caseiras
  <2> QED
    BY <2>1, Zenon DEF NotaDita
<1>2. resultado'[p] \in {"autorizado", "encontrada"} => ret \in Acharam
  <2>1. cod \notin {"autorizado", "encontrada"}
    <3>1. cod \in P!Codigos
      BY <1>0, RespostaDaChamada, Zenon
    <3> QED
      BY <3>1 DEF P!Codigos
  <2>2. CASE pedido[p].tipo = "xml"
    <3>1. resultado'[p] \in {"nenhum", cod, "xml_nao_montado", "layout_divergente",
                             "regras_de_negocio", "entregue"}
      BY <1>0, <2>2, DesfechoDaGeracao, Zenon
    <3> QED
      BY <2>1, <3>1
  <2>3. CASE pedido[p].tipo # "xml"
    <3>1. resultado'[p] \in {"nenhum", "operacao_nao_suportada", cod, StatusDe(p, ret)}
      BY <1>0, <2>3, DesfechoDaChamada, Zenon
    <3>2. StatusDe(p, ret) \in {"autorizado", "encontrada"} => ret \in Acharam
      BY DEF StatusDe, StatusDaEmissao, StatusDoCancelamento, StatusDaConsulta,
             Autoriza, Autorizadas, Acharam
    <3> QED
      BY <2>1, <3>1, <3>2
  <2> QED
    BY <2>2, <2>3
<1>3. ASSUME NEW q \in Pedidos, NEW j \in 1..3, retorno'[<<q, j>>] \in Acharam
      PROVE  HaNota'
  <2>1. CASE q = p /\ j = k
    BY <1>1, <1>3, <2>1
  <2>2. CASE q # p \/ j # k
    <3>1. retorno'[<<q, j>>] = retorno[<<q, j>>]
      BY <1>0, <2>2, OutrasVoltam, Zenon
    <3> QED
      BY <1>3, <3>1, Zenon DEF NotaDita, Acharam, Autorizadas
  <2> QED
    BY <2>1, <2>2
<1>4. ASSUME NEW q \in Pedidos, resultado'[q] \in {"autorizado", "encontrada"}
      PROVE  HaNota'
  <2>1. CASE q = p
    BY <1>1, <1>2, <1>4, <2>1
  <2>2. CASE q # p
    <3>1. resultado'[q] = resultado[q]
      BY <1>0, <2>2, OutrosPedidos, Zenon
    <3> QED
      BY <1>4, <3>1 DEF NotaDita
  <2> QED
    BY <2>1, <2>2
<1> QED
  BY <1>3, <1>4 DEF NotaDita, Acharam, Autorizadas

LEMMA NextNota == Base /\ NotaDita /\ [Next]_vars => NotaDita'
<1> SUFFICES ASSUME Base, NotaDita, [Next]_vars PROVE NotaDita'
  OBVIOUS
<1>0. HaNota => HaNota'
  BY HaNotaFica
<1>1. CASE \E p \in Pedidos, k \in 1..2 : Chegar(p, k)
  BY <1>0, <1>1, ChegarNota
<1>2. CASE \E p \in Pedidos, k \in 1..3 : Voltar(p, k)
  BY <1>0, <1>2, VoltarNota
<1>3. CASE (\E p \in Pedidos : Comecar(p)) \/ ProcessarLote \/ PassarDia \/ Fim
           \/ UNCHANGED vars
  <2>1. UNCHANGED <<retorno, resultado>>
    BY <1>3 DEF Comecar, ProcessarLote, PassarDia, Fim, vars
  <2> QED
    BY <1>0, <2>1 DEF NotaDita, Acharam, Autorizadas
<1> QED
  BY <1>1, <1>2, <1>3 DEF Next

\* Who was told "authorised", or that a query found it, has a note at some
\* system: a lot that was only taken in is not one (nfse/resposta.go,
\* AguardaProcessamento and LoteRps.Status).
THEOREM EspecAutorizadoSoSeExiste == Spec => []AutorizadoSoSeExiste
<1>1. Init => NotaDita
  BY DEF Init, NotaDita, Chamadas, Acharam, Autorizadas
<1>2. NotaDita => AutorizadoSoSeExiste
  BY DEF NotaDita, HaNota, AutorizadoSoSeExiste, Lugares
<1> QED
  BY <1>1, <1>2, NextNota, SempreBase, PTL DEF Spec

-----------------------------------------------------------------------------
(* What a system has, somebody was told of.                                *)

Trouxe == Autorizadas \union {"lote", "vazia"}
Avisos == {"autorizado", "processando", "erro", "desfecho_indeterminado",
           "falha_na_lib"}

\* The request that brought the document, and what it tells its client.
Levou(p) ==
  /\ pedido[p].tipo = "transmissao"
  /\ transmitidas[<<p, 2>>] = 1
  /\ retorno[<<p, 2>>] \in Trouxe
  /\ etapa[p] < 4 \/ resultado[p] \in Avisos

\* A transmission has one call, and is told at once that its outcome is unknown.
UmaChamada(p) ==
  pedido[p].tipo = "transmissao" =>
    /\ codigo[<<p, 1>>] = "pendente"
    /\ codigo[<<p, 2>>] = "desfecho_indeterminado"
         => etapa[p] = 4 /\ resultado[p] = "desfecho_indeterminado"

HaDocumento == \E l \in Lugares : registro[l] # "nenhuma"

Avisada ==
  /\ \A p \in Pedidos : UmaChamada(p)
  /\ HaDocumento => \E p \in Pedidos : Levou(p)

LEMMA ComecarAvisa ==
  ASSUME NEW p \in Pedidos, Base, Avisada, Comecar(p)
  PROVE  Avisada'
<1>0. IInv /\ ContasCertas
  BY DEF Base
<1>1. etapa[p] = 0 /\ pedido[p].tipo = "nenhum"
      /\ UNCHANGED <<retorno, resultado, registro, codigo, transmitidas>>
  BY <1>0, PassoDeComecar
<1>2. \A q \in Pedidos \ {p} : pedido'[q] = pedido[q] /\ etapa'[q] = etapa[q]
  BY <1>0, PassoDeComecar
<1>3. codigo[<<p, 1>>] = "pendente" /\ codigo[<<p, 2>>] = "pendente"
  <2>1. SemResposta(p)
    BY <1>0 DEF ContasCertas, Conta
  <2> QED
    BY <1>1, <2>1 DEF SemResposta
<1>4. ASSUME NEW q \in Pedidos PROVE UmaChamada(q)'
  BY <1>1, <1>2, <1>3 DEF Avisada, UmaChamada
<1>5. ASSUME NEW q \in Pedidos, Levou(q) PROVE Levou(q)'
  BY <1>1, <1>2, <1>5 DEF Levou
<1> QED
  BY <1>1, <1>4, <1>5 DEF Avisada, HaDocumento

LEMMA ChegarAvisa ==
  ASSUME NEW p \in Pedidos, NEW k \in 1..2, Base, Avisada, Chegar(p, k)
  PROVE  Avisada'
<1> DEFINE c == <<p, k>>
           l == Lugar(p, k)
<1>0. IInv /\ Tipagem /\ ContasCertas
  BY DEF Base, IInv
<1>1. UNCHANGED <<pedido, etapa, resultado, codigo>> /\ Emitida(c)
      /\ codigo[c] \in {"pendente", "desfecho_indeterminado"}
      /\ transmitidas' = [transmitidas EXCEPT ![c] = 1]
      /\ c \in Chamadas /\ transmitidas[c] = 0
  BY <1>0, PassoDeChegar, RetornoDaChegada
<1>2. transmitidas'[c] = 1
  BY <1>0, <1>1 DEF ContasCertas, ChamadasDefinidas
<1>3. \A q \in Pedidos : UmaChamada(q)'
  BY <1>1 DEF Avisada, UmaChamada
<1>4. ASSUME NEW q \in Pedidos, Levou(q) PROVE Levou(q)'
  <2>1. <<q, 2>> \in Chamadas \ {c}
    BY <1>1, <1>4 DEF Levou, Chamadas
  <2>2. transmitidas'[<<q, 2>>] = transmitidas[<<q, 2>>]
    BY <1>0, <1>1, <2>1 DEF ContasCertas, ChamadasDefinidas
  <2>3. retorno'[<<q, 2>>] = retorno[<<q, 2>>]
    BY <1>0, <2>1, RetornoDaChegada
  <2> QED
    BY <1>1, <1>4, <2>2, <2>3 DEF Levou
<1>5. ASSUME HaDocumento', ~ HaDocumento PROVE Levou(p)'
  <2>1. l \in Lugares
    BY <1>0, LugarExiste
  <2>2. registro[l] = "nenhuma" /\ registro' # registro
    BY <1>5, <2>1 DEF HaDocumento, Lugares, Sistemas
  <2>3. pedido[p].tipo = "transmissao"
    <3>1. CASE pedido[p].tipo = "cancelamento"
      <4>1. UNCHANGED registro \/ registro[l] = "autorizada"
        BY <1>0, <3>1, RetornoDaChegada, Zenon
      <4> QED
        BY <2>2, <4>1
    <3>2. CASE pedido[p].tipo \notin {"transmissao", "cancelamento"}
      <4>1. UNCHANGED registro
        BY <1>0, <3>2, RetornoDaChegada, Zenon
      <4> QED
        BY <2>2, <4>1
    <3> QED
      BY <3>1, <3>2
  <2>4. retorno'[c] \in Trouxe
    <3>1. UNCHANGED registro \/ retorno'[c] \in Autorizadas \/ retorno'[c] = "lote"
      BY <1>0, <2>3, RetornoDaChegada, Zenon
    <3> QED
      BY <2>2, <3>1 DEF Trouxe
  <2>5. UmaChamada(p) /\ Recusa(p)
    BY <1>0 DEF Avisada, ContasCertas, Conta
  <2>6. k = 2
    <3>1. etapa[p] = k \/ codigo[c] # "pendente"
      BY <1>1 DEF Emitida
    <3>2. etapa[p] # 1 /\ codigo[<<p, 1>>] = "pendente"
      BY <2>3, <2>5 DEF UmaChamada, Recusa
    <3> QED
      BY <3>1, <3>2
  <2>7. etapa[p] < 4 \/ resultado[p] \in Avisos
    <3>1. etapa[p] = 2 \/ codigo[<<p, 2>>] = "desfecho_indeterminado"
      BY <1>1, <2>6 DEF Emitida
    <3> QED
      BY <2>3, <2>5, <3>1 DEF UmaChamada, Avisos
  <2> QED
    BY <1>1, <1>2, <2>3, <2>4, <2>6, <2>7 DEF Levou
<1> QED
  BY <1>3, <1>4, <1>5 DEF Avisada

\* No code of a call that left says that nothing left.
LEMMA CodigoDoQueSaiu ==
  ASSUME NEW p \in Pedidos, NEW k \in 1..3, ContasCertas, Voltar(p, k),
         transmitidas[<<p, k>>] = 1
  PROVE  codigo'[<<p, k>>] \in {"sucesso", "desfecho_indeterminado", "falha_na_lib"}
<1>1. PICK cod \in P!Codigos :
        /\ cod \in {"lib_indisponivel", "operacao_nao_suportada"}
             => transmitidas[<<p, k>>] = 0
        /\ codigo' = [codigo EXCEPT ![<<p, k>>] = cod]
  BY DEF Voltar, P!Responder
<1>2. codigo'[<<p, k>>] = cod
  BY <1>1 DEF ContasCertas, ChamadasDefinidas, Chamadas
<1>3. cod \in P!Codigos \ {"lib_indisponivel", "operacao_nao_suportada"}
  BY <1>1
<1> QED
  BY <1>2, <1>3 DEF P!Codigos

LEMMA VoltarAvisa ==
  ASSUME NEW p \in Pedidos, NEW k \in 1..3, Base, Avisada, Voltar(p, k)
  PROVE  Avisada'
<1> DEFINE cod == codigo'[<<p, k>>]
           ret == retorno'[<<p, k>>]
<1>0. IInv /\ ContasCertas
  BY DEF Base
<1>1. etapa[p] = k /\ UNCHANGED <<pedido, transmitidas, registro>>
  BY <1>0, RespostaDaChamada DEF Voltar
<1>2. UmaChamada(p) /\ Recusa(p)
  BY <1>0 DEF Avisada, ContasCertas, Conta
<1>3. ASSUME pedido[p].tipo = "transmissao", k = 2, cod # "sucesso"
      PROVE  etapa'[p] = 4 /\ resultado'[p] = cod
  <2>1. pedido[p].tipo # "xml" /\ k # 3
    BY <1>3
  <2>2. ~ PassaAdiante(p, k, cod, ret)
    BY <1>3 DEF PassaAdiante
  <2> QED
    BY <1>0, <1>3, <2>1, <2>2, DesfechoDaChamada, Zenon
<1>4. UmaChamada(p)'
  <2> SUFFICES ASSUME pedido[p].tipo = "transmissao"
               PROVE  /\ codigo'[<<p, 1>>] = "pendente"
                      /\ codigo'[<<p, 2>>] = "desfecho_indeterminado"
                           => etapa'[p] = 4 /\ resultado'[p] = "desfecho_indeterminado"
    BY <1>1 DEF UmaChamada
  <2>1. k # 1
    BY <1>1, <1>2 DEF Recusa
  <2>2. codigo'[<<p, 1>>] = codigo[<<p, 1>>]
    <3>1. <<p, 1>> \in Chamadas \ {<<p, k>>}
      BY <2>1 DEF Chamadas
    <3> QED
      BY <1>0, <3>1, RespostaDaChamada
  <2>3. CASE k = 2
    BY <1>2, <1>3, <2>2, <2>3 DEF UmaChamada
  <2>4. CASE k = 3
    <3>1. <<p, 2>> \in Chamadas \ {<<p, k>>}
      BY <2>4 DEF Chamadas
    <3>2. codigo'[<<p, 2>>] = codigo[<<p, 2>>]
      BY <1>0, <3>1, RespostaDaChamada
    <3> QED
      BY <1>1, <1>2, <2>2, <2>4, <3>2 DEF UmaChamada
  <2> QED
    BY <2>1, <2>3, <2>4
<1>5. ASSUME NEW q \in Pedidos, q # p
      PROVE  UmaChamada(q)' /\ (Levou(q) => Levou(q)')
  <2>1. /\ etapa'[q] = etapa[q] /\ resultado'[q] = resultado[q]
        /\ codigo'[<<q, 1>>] = codigo[<<q, 1>>]
        /\ codigo'[<<q, 2>>] = codigo[<<q, 2>>]
        /\ retorno'[<<q, 2>>] = retorno[<<q, 2>>]
    <3>1. 1 \in 1..3 /\ 2 \in 1..3 /\ q \in Pedidos \ {p}
      BY <1>5
    <3> QED
      BY <1>0, <3>1, OutrosPedidos, Zenon
  <2> QED
    BY <1>1, <2>1 DEF Avisada, UmaChamada, Levou
<1>6. ASSUME Levou(p) PROVE Levou(p)'
  <2>1. pedido[p].tipo = "transmissao" /\ transmitidas[<<p, 2>>] = 1
        /\ retorno[<<p, 2>>] \in Trouxe
    BY <1>6 DEF Levou
  <2>2. k = 2
    BY <1>1, <1>2, <2>1 DEF Recusa
  <2>3. ret \in Trouxe
    <3>1. ret \in {retorno[<<p, k>>], "vazia"} \/ transmitidas[<<p, k>>] = 0
      BY <1>0, RetornoDaChamada, Zenon
    <3> QED
      BY <2>1, <2>2, <3>1 DEF Trouxe
  <2>4. cod \in {"sucesso", "desfecho_indeterminado", "falha_na_lib"}
    BY <1>0, <2>1, <2>2, CodigoDoQueSaiu
  <2>5. resultado'[p] \in Avisos
    <3>1. CASE cod = "sucesso"
      <4>1. pedido[p].tipo # "xml" /\ k # 3
        BY <2>1, <2>2
      <4>2. ~ PassaAdiante(p, k, cod, ret) /\ ret # "naoImplementada"
        BY <2>2, <2>3 DEF PassaAdiante, Trouxe, Autorizadas
      <4>3. resultado'[p] = IF cod = "sucesso" THEN StatusDe(p, ret) ELSE cod
        BY <1>0, <4>1, <4>2, DesfechoDaChamada, Zenon
      <4>4. StatusDe(p, ret) \in {"autorizado", "processando", "erro"}
        BY <2>1, <2>3 DEF StatusDe, StatusDaEmissao, Trouxe, Autoriza, Autorizadas
      <4> QED
        BY <3>1, <4>3, <4>4 DEF Avisos
    <3>2. CASE cod # "sucesso"
      BY <1>3, <2>1, <2>2, <2>4, <3>2 DEF Avisos
    <3> QED
      BY <3>1, <3>2
  <2> QED
    BY <1>1, <2>1, <2>2, <2>3, <2>5 DEF Levou
<1> QED
  BY <1>1, <1>4, <1>5, <1>6 DEF Avisada, HaDocumento

LEMMA NextAvisa == Base /\ Avisada /\ [Next]_vars => Avisada'
<1> SUFFICES ASSUME Base, Avisada, [Next]_vars PROVE Avisada'
  OBVIOUS
<1>1. CASE \E p \in Pedidos : Comecar(p)
  BY <1>1, ComecarAvisa
<1>2. CASE \E p \in Pedidos, k \in 1..2 : Chegar(p, k)
  BY <1>2, ChegarAvisa
<1>3. CASE \E p \in Pedidos, k \in 1..3 : Voltar(p, k)
  BY <1>3, VoltarAvisa
<1>4. CASE ProcessarLote \/ PassarDia \/ Fim \/ UNCHANGED vars
  <2>1. UNCHANGED <<pedido, etapa, retorno, resultado, codigo, transmitidas>>
    BY <1>4 DEF ProcessarLote, PassarDia, Fim, cliente, vars
  <2>2. HaDocumento' => HaDocumento
    <3>1. CASE ProcessarLote
      BY <3>1 DEF ProcessarLote, HaDocumento
    <3>2. CASE PassarDia \/ Fim \/ UNCHANGED vars
      BY <3>2 DEF PassarDia, Fim, vars, HaDocumento, Lugares, Sistemas
    <3> QED
      BY <1>4, <3>1, <3>2
  <2> QED
    BY <2>1, <2>2 DEF Avisada, UmaChamada, Levou
<1> QED
  BY <1>1, <1>2, <1>3, <1>4 DEF Next

\* No answer that invites the client to issue another document hides one that
\* exists: the request that brought it is running, or was told that the document
\* is there, or that nobody knows (fiscal.go, ResponderErroDaLib;
\* nfse/http.go, handleTransmissao).
THEOREM EspecNotaSemAvisoNaoExiste == Spec => []NotaSemAvisoNaoExiste
<1>1. Init => Avisada
  BY DEF Init, Avisada, UmaChamada, HaDocumento, SemPedido, Lugares
<1>2. Avisada => NotaSemAvisoNaoExiste
  BY DEF Avisada, HaDocumento, Levou, Avisos, NotaSemAvisoNaoExiste, DoTipo
<1> QED
  BY <1>1, <1>2, NextAvisa, SempreBase, PTL DEF Spec

-----------------------------------------------------------------------------
(* The search for a DPS.                                                   *)

\* Whatever the competence of the document said, its route is one of those the
\* query follows, and the only one where there is one (nfse/rota.go,
\* RotasDaConsultaDPS and DaEmissao).
THEOREM AConsultaPassaPelaRotaDaEmissao ==
  ASSUME NEW m \in Municipios, NEW op, NEW comp,
         NEW rs, rs = RotasDaConsultaDPS(RotaDoMunicipio(m)),
         NEW r, r = DaEmissao(RotaDoMunicipio(m), op, comp)
  PROVE  /\ r \in {rs[1], rs[Len(rs)]}
         /\ ~ TemDoisCaminhos(m) => r = rs[Len(rs)]
<1>1. RotaDoMunicipio(m).municipio = m
  BY DEF RotaDoMunicipio
<1>2. CASE TemDoisCaminhos(m)
  <2>1. rs = <<Nacional(RotaDoMunicipio(m)), RotaDoMunicipio(m)>>
    BY <1>1, <1>2 DEF RotasDaConsultaDPS
  <2>2. r \in {Nacional(RotaDoMunicipio(m)), RotaDoMunicipio(m)}
    BY DEF DaEmissao
  <2> QED
    BY <1>2, <2>1, <2>2
<1>3. CASE ~ TemDoisCaminhos(m)
  <2>1. rs = <<RotaDoMunicipio(m)>>
    BY <1>1, <1>3 DEF RotasDaConsultaDPS
  <2>2. r = RotaDoMunicipio(m)
    BY <1>1, <1>3 DEF DaEmissao, PeloAmbienteNacional, TemDoisCaminhos
  <2> QED
    BY <2>1, <2>2
<1> QED
  BY <1>2, <1>3

\* The system that call k of a search asks.
SistemaDaBusca(k) ==
  LET rs == RotasDaConsultaDPS(RotaDoMunicipio(emissor))
  IN  IF emissor = Sefaz THEN Sefaz
      ELSE Sistema(IF k = 1 THEN rs[1] ELSE rs[Len(rs)])

LEMMA ABuscaAchaOSistema ==
  ASSUME Tipagem
  PROVE  /\ SistemaDaDPS \in {SistemaDaBusca(1), SistemaDaBusca(2)}
         /\ emissor = Sefaz \/ ~ TemDoisCaminhos(emissor)
              => SistemaDaDPS = SistemaDaBusca(2)
<1>1. CASE emissor = Sefaz
  BY <1>1 DEF SistemaDaDPS, SistemaDaBusca
<1>2. CASE emissor # Sefaz
  <2> DEFINE rs == RotasDaConsultaDPS(RotaDoMunicipio(emissor))
             r == DaEmissao(RotaDoMunicipio(emissor), xml.opSimpNac, xml.dCompet)
  <2>1. emissor \in Municipios
    BY <1>2 DEF Tipagem
  <2>2. /\ r \in {rs[1], rs[Len(rs)]}
        /\ ~ TemDoisCaminhos(emissor) => r = rs[Len(rs)]
    BY <2>1, AConsultaPassaPelaRotaDaEmissao
  <2>3. SistemaDaDPS = Sistema(r)
    BY <1>2 DEF SistemaDaDPS, RotaDaTransmissao, DaDPSPronta
  <2>4. SistemaDaBusca(1) = Sistema(rs[1]) /\ SistemaDaBusca(2) = Sistema(rs[Len(rs)])
    BY <1>2 DEF SistemaDaBusca
  <2> HIDE DEF r, rs
  <2> QED
    BY <1>2, <2>2, <2>3, <2>4
<1> QED
  BY <1>1, <1>2

LEMMA ABuscaPede ==
  ASSUME NEW p, NEW k \in 1..2, pedido[p].tipo = "consulta-dps"
  PROVE  Lugar(p, k) = <<SistemaDaBusca(k), pedido[p].ambiente>>
<1> DEFINE rs == RotasDaConsultaDPS(RotaDoMunicipio(emissor))
<1>1. RotaDe(p, k) = IF k = 1 THEN rs[1] ELSE rs[Len(rs)]
  BY DEF RotaDe
<1>2. SistemaDe(p, k) = SistemaDaBusca(k)
  BY <1>1 DEF SistemaDe, SistemaDaBusca
<1> QED
  BY <1>2 DEF Lugar, AmbienteDe

Procurado(p) == <<SistemaDaDPS, pedido[p].ambiente>>

\* The note that was there is there still, so no answer "absent" is of its
\* system; and the answers that end the search are those of its calls.
Busca(p) ==
  pedido[p].tipo = "consulta-dps" =>
    /\ havia[p] =>
         /\ Procurado(p) \in Lugares /\ registro[Procurado(p)] \in TemNota
         /\ \A k \in 1..2 : retorno[<<p, k>>] = "ausente"
                              => SistemaDaBusca(k) # SistemaDaDPS
    /\ resultado[p] = "ausente" =>
         codigo[<<p, 2>>] = "sucesso" /\ retorno[<<p, 2>>] = "ausente"
    /\ codigo[<<p, 1>>] = "sucesso" /\ retorno[<<p, 1>>] = "encontrada" =>
         resultado[p] = "encontrada"

BuscaCerta == \A p \in Pedidos : Busca(p)

LEMMA MesmaBusca ==
  UNCHANGED emissor => \A k \in 1..2 : SistemaDaBusca(k)' = SistemaDaBusca(k)
BY DEF SistemaDaBusca

LEMMA ComecarBusca ==
  ASSUME NEW p \in Pedidos, Base, BuscaCerta, Comecar(p)
  PROVE  BuscaCerta'
<1>0. IInv /\ ContasCertas /\ TypeOK
  BY DEF Base
<1>1. etapa[p] = 0
      /\ UNCHANGED <<emissor, xml, retorno, resultado, registro, codigo>>
      /\ \A q \in Pedidos \ {p} : pedido'[q] = pedido[q]
      /\ Cabe(pedido'[p].tipo) /\ pedido'[p].ambiente \in Ambientes
      /\ havia' = [havia EXCEPT ![p] =
           \E t \in Sistemas : registro[<<t, pedido'[p].ambiente>>] \in TemNota]
  BY <1>0, PassoDeComecar
<1>2. SistemaDaDPS' = SistemaDaDPS /\ \A k \in 1..2 : SistemaDaBusca(k)' = SistemaDaBusca(k)
  BY <1>1, MesmoSistema, MesmaBusca
<1>3. ASSUME NEW q \in Pedidos, q # p PROVE Busca(q)'
  <2>1. havia'[q] = havia[q] /\ pedido'[q] = pedido[q] /\ Busca(q)
    BY <1>0, <1>1, <1>3 DEF TypeOK, BuscaCerta
  <2> QED
    BY <1>1, <1>2, <2>1 DEF Busca, Procurado
<1>4. Busca(p)'
  <2>1. SemResposta(p)
    BY <1>0 DEF ContasCertas, Conta
  <2>2. resultado[p] = "nenhum"
        /\ \A k \in 1..3 : retorno[<<p, k>>] = "nenhum" /\ codigo[<<p, k>>] = "pendente"
    BY <1>1, <2>1 DEF SemResposta
  <2>3. ASSUME havia'[p]
        PROVE  Procurado(p)' \in Lugares /\ registro[Procurado(p)'] \in TemNota
    <3> DEFINE a == pedido'[p].ambiente
    <3>0. a \in Ambientes
          /\ havia' = [havia EXCEPT ![p] =
                         \E t \in Sistemas : registro[<<t, a>>] \in TemNota]
      BY <1>0, PassoDeComecar, Zenon
    <3>1. Procurado(p)' = <<SistemaDaDPS, a>> /\ a \in Ambientes
      BY <1>2, <3>0, Zenon DEF Procurado
    <3>2. havia' = [havia EXCEPT ![p] = \E t \in Sistemas : registro[<<t, a>>] \in TemNota]
          /\ havia \in [Pedidos -> BOOLEAN]
      BY <1>0, <3>0, Zenon DEF TypeOK
    <3> HIDE DEF a
    <3>3. PICK t \in Sistemas : registro[<<t, a>>] \in TemNota
      BY <2>3, <3>2
    <3>4. t = SistemaDaDPS
      BY <1>0, <3>1, <3>3 DEF IInv, NoLugar, TemNota
    <3> QED
      BY <3>1, <3>3, <3>4 DEF Lugares
  <2> QED
    BY <1>1, <2>2, <2>3 DEF Busca, Lugares, Sistemas, Procurado
<1> QED
  BY <1>3, <1>4 DEF BuscaCerta

LEMMA ChegarBusca ==
  ASSUME NEW p \in Pedidos, NEW k \in 1..2, Base, BuscaCerta, Chegar(p, k),
         \A l \in Lugares : registro[l] \in TemNota => registro'[l] \in TemNota
  PROVE  BuscaCerta'
<1> DEFINE c == <<p, k>>
<1>0. ContasCertas
  BY DEF Base
<1>1. UNCHANGED <<emissor, xml, pedido, havia, resultado, codigo>>
      /\ codigo[c] \in {"pendente", "desfecho_indeterminado"}
  BY PassoDeChegar DEF Chegar, cliente
<1>2. SistemaDaDPS' = SistemaDaDPS /\ \A j \in 1..2 : SistemaDaBusca(j)' = SistemaDaBusca(j)
  BY <1>1, MesmoSistema, MesmaBusca
<1>3. ASSUME NEW q \in Pedidos, pedido[q].tipo = "consulta-dps" PROVE Busca(q)'
  <2>1. Busca(q)
    BY DEF BuscaCerta
  <2>2. \A j \in 1..2 : codigo[<<q, j>>] = "sucesso" =>
          retorno'[<<q, j>>] = retorno[<<q, j>>]
    <3> SUFFICES ASSUME NEW j \in 1..2, codigo[<<q, j>>] = "sucesso"
                 PROVE  retorno'[<<q, j>>] = retorno[<<q, j>>]
      OBVIOUS
    <3>1. <<q, j>> \in Chamadas \ {c}
      BY <1>1 DEF Chamadas
    <3> QED
      BY <1>0, <3>1, RetornoDaChegada
  <2>3. Procurado(q)' = Procurado(q)
    BY <1>1, <1>2 DEF Procurado
  <2>4. ASSUME havia[q], NEW j \in 1..2, retorno'[<<q, j>>] = "ausente"
        PROVE  SistemaDaBusca(j) # SistemaDaDPS
    <3>1. CASE q = p /\ j = k
      <4>1. retorno'[c] = RespostaDaConsulta(registro[Lugar(p, k)])
        <5>1. pedido[p].tipo = "consulta-dps"
          BY <1>3, <3>1
        <5> QED
          BY <1>0, <5>1, RetornoDaChegada
      <4>2. registro[Lugar(p, k)] \notin TemNota
        BY <2>4, <3>1, <4>1 DEF RespostaDaConsulta
      <4>3. registro[Procurado(p)] \in TemNota
        BY <1>3, <2>1, <2>4, <3>1 DEF Busca
      <4> QED
        BY <1>3, <3>1, <4>2, <4>3, ABuscaPede DEF Procurado
    <3>2. CASE ~ (q = p /\ j = k)
      <4>1. <<q, j>> \in Chamadas \ {c}
        BY <3>2 DEF Chamadas
      <4>2. retorno'[<<q, j>>] = retorno[<<q, j>>]
        BY <1>0, <4>1, RetornoDaChegada
      <4> QED
        BY <1>3, <2>1, <2>4, <4>2 DEF Busca
    <3> QED
      BY <3>1, <3>2
  <2> QED
    BY <1>1, <1>2, <1>3, <2>1, <2>2, <2>3, <2>4 DEF Busca, Lugares, Sistemas
<1> QED
  BY <1>1, <1>3 DEF BuscaCerta, Busca

LEMMA VoltarBusca ==
  ASSUME NEW p \in Pedidos, NEW k \in 1..3, Base, BuscaCerta, Voltar(p, k)
  PROVE  BuscaCerta'
<1> DEFINE cod == codigo'[<<p, k>>]
           ret == retorno'[<<p, k>>]
<1>0. IInv /\ ContasCertas
  BY DEF Base
<1>1. etapa[p] = k /\ UNCHANGED <<emissor, pedido, registro, havia>>
  BY DEF Voltar, cliente
<1>2. \A j \in 1..2 : SistemaDaBusca(j)' = SistemaDaBusca(j)
  BY <1>1, MesmaBusca
<1>3. ASSUME NEW q \in Pedidos, pedido[q].tipo = "consulta-dps", havia[q]
      PROVE  SistemaDaDPS' = SistemaDaDPS
  <2>1. Procurado(q) \in Lugares /\ registro[Procurado(q)] \in TemNota
    BY <1>3 DEF BuscaCerta, Busca
  <2>2. xml # SemXML
    BY <1>0, <2>1 DEF IInv, NoLugar, Lugares, TemNota, Procurado
  <2>3. ~ Gerando(p)
    BY <1>0, <2>2 DEF IInv, UmaGeracao
  <2>4. pedido[p].tipo # "xml"
    BY <1>1, <2>3 DEF Gerando
  <2>5. UNCHANGED xml
    BY <2>4, PassoDeVoltar
  <2> QED
    BY <1>1, <2>5, MesmoSistema
<1>4. ASSUME NEW q \in Pedidos, NEW j \in 1..2, retorno'[<<q, j>>] = "ausente"
      PROVE  retorno[<<q, j>>] = "ausente"
  <2>1. CASE q = p /\ j = k
    <3>1. ret \in {retorno[<<p, k>>]} \union Caseiras
      BY <1>0, RetornoDaChamada, Zenon
    <3> QED
      BY <1>4, <2>1, <3>1 DEF Caseiras
  <2>2. CASE ~ (q = p /\ j = k)
    <3>1. <<q, j>> \in Chamadas \ {<<p, k>>}
      BY <2>2 DEF Chamadas
    <3> QED
      BY <1>0, <1>4, <3>1, RespostaDaChamada
  <2> QED
    BY <2>1, <2>2
<1>5. ASSUME NEW q \in Pedidos, pedido[q].tipo = "consulta-dps", havia[q]
      PROVE  /\ Procurado(q)' \in Lugares /\ registro'[Procurado(q)'] \in TemNota
             /\ \A j \in 1..2 : retorno'[<<q, j>>] = "ausente"
                                  => SistemaDaBusca(j)' # SistemaDaDPS'
  <2>1. SistemaDaDPS' = SistemaDaDPS /\ Procurado(q)' = Procurado(q)
    BY <1>1, <1>3, <1>5 DEF Procurado
  <2> QED
    BY <1>1, <1>2, <1>4, <1>5, <2>1 DEF BuscaCerta, Busca
<1>6. ASSUME pedido[p].tipo = "consulta-dps"
      PROVE  /\ resultado'[p] = "ausente" => k = 2 /\ cod = "sucesso" /\ ret = "ausente"
             /\ k = 1 /\ cod = "sucesso" /\ ret = "encontrada"
                  => resultado'[p] = "encontrada"
  <2>1. pedido[p].tipo # "xml"
    BY <1>6
  <2>2. PassaAdiante(p, k, cod, ret) <=>
          k = 1 /\ ~ (cod = "sucesso" /\ ret = "encontrada")
    BY <1>6 DEF PassaAdiante, EncerraABusca
  <2>3. \/ /\ resultado'[p] \in {"nenhum", "operacao_nao_suportada"}
           /\ \/ PassaAdiante(p, k, cod, ret) \/ k = 3
              \/ ret = "naoImplementada"
        \/ /\ resultado'[p] = IF cod = "sucesso" THEN StatusDe(p, ret) ELSE cod
           /\ k < 3 /\ ~ PassaAdiante(p, k, cod, ret)
    BY <1>0, <2>1, DesfechoDaChamada, Zenon
  <2>4. StatusDe(p, ret) = "ausente" => ret = "ausente"
    BY <1>6 DEF StatusDe, StatusDaConsulta, StatusDaEmissao, Autoriza, Autorizadas
  <2>5. StatusDe(p, "encontrada") = "encontrada"
    BY <1>6 DEF StatusDe, StatusDaConsulta
  <2>6. cod # "ausente"
    <3>1. cod \in P!Codigos
      BY <1>0, RespostaDaChamada, Zenon
    <3> QED
      BY <3>1 DEF P!Codigos
  <2> HIDE DEF cod, ret
  <2>7. resultado'[p] = "ausente" => k = 2 /\ cod = "sucesso" /\ ret = "ausente"
    BY <2>2, <2>3, <2>4, <2>6
  <2>8. k = 1 /\ cod = "sucesso" /\ ret = "encontrada" => resultado'[p] = "encontrada"
    BY <2>2, <2>3, <2>5
  <2> QED
    BY <2>7, <2>8
<1>7. ASSUME pedido[p].tipo = "consulta-dps", k # 1,
             codigo'[<<p, 1>>] = "sucesso", retorno'[<<p, 1>>] = "encontrada"
      PROVE  FALSE
  <2>1. <<p, 1>> \in Chamadas \ {<<p, k>>}
    BY <1>7 DEF Chamadas
  <2>2. codigo[<<p, 1>>] = "sucesso" /\ retorno[<<p, 1>>] = "encontrada"
    BY <1>0, <1>7, <2>1, RespostaDaChamada
  <2>3. resultado[p] = "encontrada"
    BY <1>7, <2>2 DEF BuscaCerta, Busca
  <2>4. SemResposta(p)
    BY <1>0 DEF ContasCertas, Conta
  <2> QED
    BY <1>1, <2>3, <2>4 DEF SemResposta
<1>8. Busca(p)'
  BY <1>1, <1>5, <1>6, <1>7 DEF Busca
<1>9. ASSUME NEW q \in Pedidos, q # p PROVE Busca(q)'
  <2>1. /\ resultado'[q] = resultado[q]
        /\ codigo'[<<q, 1>>] = codigo[<<q, 1>>]
        /\ codigo'[<<q, 2>>] = codigo[<<q, 2>>]
        /\ retorno'[<<q, 1>>] = retorno[<<q, 1>>]
        /\ retorno'[<<q, 2>>] = retorno[<<q, 2>>]
    <3>1. 1 \in 1..3 /\ 2 \in 1..3 /\ q \in Pedidos \ {p}
      BY <1>9
    <3> QED
      BY <1>0, <3>1, OutrosPedidos, Zenon
  <2> QED
    BY <1>1, <1>5, <2>1 DEF BuscaCerta, Busca
<1> QED
  BY <1>8, <1>9 DEF BuscaCerta

LEMMA NextBusca == Base /\ BuscaCerta /\ [Next]_vars => BuscaCerta'
<1> SUFFICES ASSUME Base, BuscaCerta, [Next]_vars PROVE BuscaCerta'
  OBVIOUS
<1>0. \A l \in Lugares : registro[l] \in TemNota => registro'[l] \in TemNota
  BY NotasFicam
<1>1. CASE \E p \in Pedidos : Comecar(p)
  BY <1>1, ComecarBusca
<1>2. CASE \E p \in Pedidos, k \in 1..2 : Chegar(p, k)
  BY <1>0, <1>2, ChegarBusca
<1>3. CASE \E p \in Pedidos, k \in 1..3 : Voltar(p, k)
  BY <1>3, VoltarBusca
<1>4. CASE ProcessarLote \/ PassarDia \/ Fim \/ UNCHANGED vars
  <2>1. Alheio
    BY <1>4, PassoAlheio
  <2>2. SistemaDaDPS' = SistemaDaDPS
        /\ \A k \in 1..2 : SistemaDaBusca(k)' = SistemaDaBusca(k)
    BY <2>1, MesmoSistema, MesmaBusca DEF Alheio
  <2> QED
    BY <1>0, <2>1, <2>2 DEF Alheio, BuscaCerta, Busca, Procurado, Lugares, Sistemas
<1> QED
  BY <1>1, <1>2, <1>3, <1>4 DEF Next

\* "This DPS became no note" hides none that was there when the query began,
\* except where it is known to: the municipality has two systems and the one
\* that was asked first failed (nfse/http.go, handleConsultaDPS).
THEOREM EspecAusenteSoSeNaoExiste == Spec => []AusenteSoSeNaoExiste
<1>1. Init => BuscaCerta
  BY DEF Init, BuscaCerta, Busca, SemPedido
<1>2. Base /\ BuscaCerta => AusenteSoSeNaoExiste
  <2> SUFFICES ASSUME Base, BuscaCerta, NEW p \in Pedidos,
                      pedido[p].tipo = "consulta-dps",
                      resultado[p] = "ausente", havia[p]
               PROVE  /\ TemDoisCaminhos(emissor)
                      /\ \/ codigo[<<p, 1>>] # "sucesso"
                         \/ retorno[<<p, 1>>] \notin {"ausente", "encontrada"}
    BY DEF AusenteSoSeNaoExiste, DoTipo
  <2>0. /\ retorno[<<p, 2>>] = "ausente"
        /\ \A k \in 1..2 : retorno[<<p, k>>] = "ausente"
                            => SistemaDaBusca(k) # SistemaDaDPS
        /\ codigo[<<p, 1>>] = "sucesso" => retorno[<<p, 1>>] # "encontrada"
    BY DEF BuscaCerta, Busca
  <2>1. SistemaDaBusca(2) # SistemaDaDPS
    BY <2>0
  <2>2. TemDoisCaminhos(emissor) /\ SistemaDaBusca(1) = SistemaDaDPS
    BY <2>1, ABuscaAchaOSistema DEF Base, IInv
  <2>3. retorno[<<p, 1>>] # "ausente"
    BY <2>0, <2>2
  <2> QED
    BY <2>0, <2>2, <2>3
<1> QED
  BY <1>1, <1>2, NextBusca, SempreBase, PTL DEF Spec

=============================================================================
