----------------------------- MODULE Documento -----------------------------
(***************************************************************************)
(* The life of one fiscal document as the requests of its client make it:  *)
(* the handlers of internal/nfse/http.go and internal/cte/http.go (those   *)
(* of the MDF-e are the same) over fiscal.Montar and the routes of Rota.   *)
(*                                                                         *)
(* The server keeps nothing between requests.  Each works out again, from  *)
(* what the client sent, the system and the environment it speaks with,    *)
(* and makes one to three calls of the library.  What a call may do is     *)
(* taken from the contract that the pool of workers is proved to implement *)
(* (Promessa): it is answered with a code, it may reach the system before  *)
(* that, and after "desfecho_indeterminado" it may still do so later.      *)
(*                                                                         *)
(* The client may send any request at any moment and repeat it at will.    *)
(***************************************************************************)
EXTENDS Rota, FiniteSets

CONSTANTS
  Pedidos,      \* the requests, each used once
  Tipos,        \* the kinds of request of this instance
  Emissores,    \* the municipalities of the document; Sefaz for CT-e and MDF-e
  Sefaz,        \* CT-e and MDF-e: one system, no route to choose
  Pedidas,      \* the competences the client may write
  Informados,   \* the environments it may ask for
  OpSimpNac,    \* the regimes it may have
  SemServico,   \* <<system, kind>>: the class of the library lacks it
  MaxHoje       \* bound: the last day of the calendar of the run

\* InformacoesProvedor is call 3, the answer of a request comes from call 2,
\* and call 1 comes before it in the requests that ask twice.
Chamadas == Pedidos \X (1..3)

Ambientes == {"homologacao", "producao"}
Sistemas  == {SistemaDaSessao(m) : m \in Municipios} \union {Sefaz}
Lugares   == Sistemas \X Ambientes

TodosOsTipos == {"xml", "transmissao", "lote", "consulta-dps", "cancelamento",
                 "distribuicao"}

ASSUME DocumentoAssumption ==
  /\ Sefaz \notin Municipios
  /\ Emissores \subseteq Municipios \union {Sefaz}
  /\ Tipos \subseteq TodosOsTipos
  /\ Pedidas \subseteq Competencias
  /\ Informados \subseteq Ambientes
  /\ OpSimpNac \subseteq Regimes
  /\ SemServico \subseteq (Sistemas \ {Sefaz}) \X TodosOsTipos
  /\ MaxHoje \in Nat

VARIABLES
  hoje,          \* the day the server is in
  emissor,       \* whose document it is
  regime,        \* the opSimpNac of the client
  xml,           \* the document the last generation delivered
  prometido,     \* the system that answer named as its provider
  pedido,        \* what each request is (SemPedido says of which parts)
  etapa,         \* the call each one waits for; 0 before it, 4 when answered
  retorno,       \* what the library would answer to each call
  resultado,     \* what each client was told
  registro,      \* the document at each system, in each environment
  havia,         \* the environment of the request had the note when it began
  filas,         \* the queues that have answered a distribution
  codigo, transmitidas   \* the calls, as Promessa sees them

P == INSTANCE Promessa WITH Transmissoras <- Chamadas

vars == <<hoje, emissor, regime, xml, prometido, pedido, etapa, retorno,
          resultado, registro, havia, filas, codigo, transmitidas>>

cliente == <<emissor, regime, pedido, havia>>

\* The tags of the finished document, before there is one.
SemXML == [opSimpNac |-> 0, tpAmb |-> "nenhum",
           dCompet |-> [forma |-> "vazio", dia |-> 0, local |-> 0]]

\* A request: its kind, its environment, the competence of a generation and the
\* day its INI gives the document, and, in a cancellation, the system whose note
\* it means by the key.
SemPedido == [tipo |-> "nenhum", ambiente |-> "homologacao",
              comp |-> SemXML.dCompet, dia |-> 0, nota |-> Sefaz]

SituacoesNoFisco == {"nenhuma", "lote", "loteRecusado", "autorizada", "cancelada"}
TemNota          == {"autorizada", "cancelada"}

\* Definitions named X_Erro... are mutations of the one that follows them: each
\* is a plausible bug, and some property below fails when it is put in place.

Init ==
  /\ hoje      = 0
  /\ emissor   \in Emissores
  /\ regime    \in OpSimpNac
  /\ xml       = SemXML
  /\ prometido = Sefaz
  /\ pedido    = [p \in Pedidos |-> SemPedido]
  /\ etapa     = [p \in Pedidos |-> 0]
  /\ retorno   = [c \in Chamadas |-> "nenhum"]
  /\ resultado = [p \in Pedidos |-> "nenhum"]
  /\ registro  = [l \in Lugares |-> "nenhuma"]
  /\ havia     = [p \in Pedidos |-> FALSE]
  /\ filas     = {}
  /\ P!Init

-----------------------------------------------------------------------------
(* Whom a call speaks with.                                                *)

\* Mutation: the environment of the request wins over the one of the XML.
AmbienteDe_ErroPedidoPrimeiro(p) == pedido[p].ambiente

\* The transmission goes by the tpAmb of the document when it has the tag.
AmbienteDe(p) ==
  IF pedido[p].tipo = "transmissao" /\ xml.tpAmb \in Ambientes
  THEN xml.tpAmb ELSE pedido[p].ambiente

\* Mutation: the day of the transmission decides, not the competence.
RotaDaTransmissao_ErroPeloDiaDeHoje ==
  DaEmissao(RotaDoMunicipio(emissor), xml.opSimpNac,
            [xml.dCompet EXCEPT !.dia = hoje])

\* Mutation: the route of the table, as if there were no `vigencias`.
RotaDaTransmissao_ErroDaTabela == RotaDoMunicipio(emissor)

RotaDaTransmissao == DaDPSPronta(RotaDoMunicipio(emissor), xml)

\* Mutation: the event goes to the provider of the city, whatever the key.
RotaDoCancelamento_ErroSemChave(p) == RotaDoMunicipio(emissor)

RotaDoCancelamento(p) ==
  DoEvento(RotaDoMunicipio(emissor), "cancelamento", regime, pedido[p].comp,
           AmbienteGerador(pedido[p].nota, emissor))

RotaDe(p, k) ==
  LET r == RotaDoMunicipio(emissor)
      consultas == RotasDaConsultaDPS(r)
  IN  CASE pedido[p].tipo = "xml"          -> DaEmissao(r, regime, pedido[p].comp)
        [] pedido[p].tipo = "transmissao"  -> RotaDaTransmissao
        [] pedido[p].tipo = "cancelamento" -> RotaDoCancelamento(p)
        [] pedido[p].tipo = "consulta-dps" -> IF k = 1 THEN consultas[1]
                                              ELSE consultas[Len(consultas)]
        [] pedido[p].tipo = "distribuicao" -> IF k = 1 THEN r ELSE Nacional(r)
        [] OTHER                           -> r

SistemaDe(p, k) == IF emissor = Sefaz THEN Sefaz ELSE Sistema(RotaDe(p, k))

Lugar(p, k) == <<SistemaDe(p, k), AmbienteDe(p)>>

Implementa(p, k) == <<SistemaDe(p, k), pedido[p].tipo>> \notin SemServico

\* The first call of a request: only a generation, a distribution and the
\* search for a DPS in two systems have two.
PrimeiraChamada(tipo) ==
  IF \/ tipo \in {"xml", "distribuicao"}
     \/ tipo = "consulta-dps" /\ TemDoisCaminhos(emissor)
  THEN 1 ELSE 2

Emitida(c) == etapa[c[1]] = c[2] \/ codigo[c] # "pendente"

-----------------------------------------------------------------------------
(* The client.                                                             *)

\* One document is followed: it is generated again only while no generation
\* has delivered it, and what needs the document waits for it.
Cabe(tipo) ==
  /\ emissor = Sefaz => tipo \notin {"lote", "distribuicao"}
  /\ tipo = "xml" =>
       /\ xml = SemXML
       /\ \A q \in Pedidos : pedido[q].tipo = "xml" => etapa[q] = 4
  /\ tipo \in {"transmissao", "lote", "consulta-dps"} => xml # SemXML

\* The notes whose key the client may hold.
Notas == {s \in Sistemas : \E a \in Ambientes : registro[<<s, a>>] \in TemNota}

\* What the handler has in hand when it makes its first call.
Requisicao(tipo, a, comp, s) ==
  [tipo |-> tipo, ambiente |-> a, comp |-> comp, nota |-> s,
   dia |-> IF tipo = "xml" THEN DataBR(comp, hoje) ELSE 0]

\* A request arrives.  The handler has checked it, normalised its environment
\* (the empty one is homologacao) and, in a generation, written the INI, with the
\* day of the document, before the first call.
Comecar(p) ==
  /\ etapa[p] = 0
  /\ \E tipo \in Tipos, a \in Informados, s \in Notas \union {Sefaz},
        comp \in Pedidas \union {SemXML.dCompet} :
       /\ Cabe(tipo)
       /\ IF tipo = "xml" THEN comp \in Pedidas ELSE comp = SemXML.dCompet
       /\ IF tipo = "cancelamento" THEN s \in Notas ELSE s = Sefaz
       /\ pedido' = [pedido EXCEPT ![p] = Requisicao(tipo, a, comp, s)]
       /\ etapa'  = [etapa EXCEPT ![p] = PrimeiraChamada(tipo)]
       /\ havia'  = [havia EXCEPT ![p] =
                       \E t \in Sistemas : registro[<<t, a>>] \in TemNota]
  /\ UNCHANGED <<hoje, emissor, regime, xml, prometido, retorno, resultado,
                 registro, filas, codigo, transmitidas>>

PassarDia ==
  /\ hoje < MaxHoje
  /\ hoje' = hoje + 1
  /\ UNCHANGED <<xml, prometido, etapa, retorno, resultado, registro, filas,
                 codigo, transmitidas, cliente>>

-----------------------------------------------------------------------------
(* The systems: what reaches them and what they answer (external).         *)

Registrar(l, situacao) == registro' = [registro EXCEPT ![l] = situacao]

\* A document that the system has is a duplicate for it.  The answer of an
\* authorised one carries the text of the note, which may cite anything; a
\* provider of a city may only take the lot in.
ReceberEmissao(c, l) ==
  \/ /\ registro[l] \in {"nenhuma", "loteRecusado"}
     /\ Registrar(l, "autorizada")
     /\ \E r \in {"autorizada", "autorizadaQueCita"} :
          retorno' = [retorno EXCEPT ![c] = r]
  \/ /\ registro[l] \in {"nenhuma", "loteRecusado"}
     /\ l[1] \notin {SessaoNacional, Sefaz}
     /\ Registrar(l, "lote")
     /\ retorno' = [retorno EXCEPT ![c] = "lote"]
  \/ /\ retorno' = [retorno EXCEPT ![c] = "recusada"]
     /\ UNCHANGED registro

ReceberCancelamento(c, l) ==
  \/ /\ registro[l] = "autorizada"
     /\ Registrar(l, "cancelada")
     /\ retorno' = [retorno EXCEPT ![c] = "concluida"]
  \/ /\ retorno' = [retorno EXCEPT ![c] = "recusada"]
     /\ UNCHANGED registro

RespostaDoLote(situacao) ==
  CASE situacao = "lote"         -> "lote"
    [] situacao \in TemNota      -> "autorizada"
    [] situacao = "loteRecusado" -> "recusada"
    [] OTHER                     -> "vazia"

RespostaDaConsulta(situacao) ==
  IF situacao \in TemNota THEN "encontrada" ELSE "ausente"

ReceberConsulta(c, tipo, l) ==
  /\ retorno' = [retorno EXCEPT ![c] =
       CASE tipo = "lote"         -> RespostaDoLote(registro[l])
         [] tipo = "distribuicao" -> "fila"
         [] OTHER                 -> RespostaDaConsulta(registro[l])]
  /\ UNCHANGED registro

\* A call reaches its system, perhaps after its client was told that nobody
\* knows.  Generating stays inside the worker, and so does the question about
\* the capabilities of the class.
Chegar(p, k) ==
  LET c    == <<p, k>>
      tipo == pedido[p].tipo
  IN  /\ Emitida(c)
      /\ tipo # "xml"
      /\ Implementa(p, k)
      /\ P!Transmitir(c)
      /\ CASE tipo = "transmissao"  -> ReceberEmissao(c, Lugar(p, k))
           [] tipo = "cancelamento" -> ReceberCancelamento(c, Lugar(p, k))
           [] OTHER                 -> ReceberConsulta(c, tipo, Lugar(p, k))
      /\ UNCHANGED <<hoje, xml, prometido, etapa, resultado, filas, cliente>>

\* The city works off an asynchronous lot.
ProcessarLote ==
  /\ \E l \in Lugares :
       /\ registro[l] = "lote"
       /\ \E s \in {"autorizada", "loteRecusado"} : Registrar(l, s)
  /\ UNCHANGED <<hoje, xml, prometido, etapa, retorno, resultado, filas,
                 codigo, transmitidas, cliente>>

-----------------------------------------------------------------------------
(* The handlers, from the answer of a call to the next call or to the      *)
(* answer of the request.                                                  *)

\* What the library itself has to say of a call that did not leave.  The one of
\* the NFS-e exports no validation.
DaLib(p, k) ==
  CASE k = 3 -> {"capacidades"}
    [] k < 3 /\ pedido[p].tipo # "xml" ->
         {IF ~ Implementa(p, k) THEN "naoImplementada"
          ELSE IF pedido[p].tipo = "lote" THEN "vazia" ELSE "recusada"}
    [] k = 1 /\ pedido[p].tipo = "xml" -> {"documento", "divergente", "vazia"}
    [] k = 2 /\ pedido[p].tipo = "xml" ->
         IF emissor = Sefaz THEN {"semMensagens", "mensagens"} ELSE {}

\* What a call that ended well may bring: what its system answered, or that
\* cut down to nothing, or what the library says without asking it.
Devolve(p, k) ==
  IF codigo'[<<p, k>>] # "sucesso" THEN {retorno[<<p, k>>]}
  ELSE IF transmitidas[<<p, k>>] = 1 THEN {retorno[<<p, k>>], "vazia"}
  ELSE DaLib(p, k)

\* Mutation: the whole response is searched, the text of the note with it.
OperacaoNaoSuportada_ErroLeANota(ret) ==
  ret \in {"naoImplementada", "autorizadaQueCita"}

OperacaoNaoSuportada(ret) == ret = "naoImplementada"

Autorizadas == {"autorizada", "autorizadaQueCita"}

\* Mutation: AguardaProcessamento is gone, so a lot taken in counts as a note.
Autoriza_ErroLoteRecebido(ret) == ret \in Autorizadas \union {"lote"}

Autoriza(ret) == ret \in Autorizadas

\* The answers of the library in the common vocabulary.

\* statusEmissao and LoteRps.Status.
StatusDaEmissao(ret) ==
  CASE Autoriza(ret)    -> "autorizado"
    [] ret = "lote"     -> "processando"
    [] ret = "recusada" -> "rejeitado"
    [] OTHER            -> "erro"

\* StatusEvento, where the city cancels by an event, and StatusCancelamento: the
\* event is done when nothing was complained of, so when nothing was said.
StatusDoCancelamento(p, ret) ==
  CASE ret = "concluida" -> "concluido"
    [] ret = "recusada"  -> "rejeitado"
    [] OTHER -> IF emissor # Sefaz /\ RotaDe(p, 2).layout = "padrao_nacional"
                THEN "concluido" ELSE "erro"

\* A query of the NFS-e passes the response on as it is, with nothing in it too.
StatusDaConsulta(ret) ==
  IF \/ ret \in {"encontrada", "ausente", "fila"}
     \/ emissor # Sefaz /\ ret \in {"recusada", "vazia"}
  THEN ret ELSE StatusDaEmissao(ret)

\* Mutation: what the library said reaches the client as it is.
StatusDe_ErroCru(p, ret) == ret

StatusDe(p, ret) ==
  CASE pedido[p].tipo \in {"transmissao", "lote"} -> StatusDaEmissao(ret)
    [] pedido[p].tipo = "cancelamento"            -> StatusDoCancelamento(p, ret)
    [] OTHER                                      -> StatusDaConsulta(ret)

Seguir(p, k) == etapa' = [etapa EXCEPT ![p] = k] /\ UNCHANGED resultado

Encerrar(p, res) ==
  /\ etapa'     = [etapa EXCEPT ![p] = 4]
  /\ resultado' = [resultado EXCEPT ![p] = res]

\* Mutation: any failure of the validation counts as "not exported".
SemValidacao_ErroToleraTudo(cod) == cod # "sucesso"

\* The only error of validarRegras that is no error of the generation.
SemValidacao(cod) == cod = "operacao_nao_suportada"

\* Why a document that was generated is not delivered.
Defeito(p) ==
  IF retorno[<<p, 1>>] = "vazia" THEN "xml_nao_montado"
  ELSE IF retorno[<<p, 1>>] = "divergente" /\ emissor # Sefaz
  THEN "layout_divergente"
  ELSE IF retorno'[<<p, 2>>] = "mensagens" THEN "regras_de_negocio" ELSE "nenhum"

DocumentoGerado(p) ==
  IF emissor = Sefaz
  THEN [SemXML EXCEPT !.tpAmb = pedido[p].ambiente]
  ELSE DocumentoDa(RotaDe(p, 2), regime, pedido[p].dia, pedido[p].ambiente)

\* fiscal.Montar and what the handler makes of its two calls.
SeguirXML(p, k, cod) ==
  LET falhou == cod # "sucesso" /\ ~ (k = 2 /\ SemValidacao(cod))
      defeito == Defeito(p)
  IN  \/ /\ falhou
         /\ Encerrar(p, cod)
         /\ UNCHANGED <<xml, prometido>>
      \/ /\ ~ falhou /\ k = 1
         /\ Seguir(p, 2)
         /\ UNCHANGED <<xml, prometido>>
      \/ /\ ~ falhou /\ k = 2 /\ defeito # "nenhum"
         /\ Encerrar(p, defeito)
         /\ UNCHANGED <<xml, prometido>>
      \/ /\ ~ falhou /\ k = 2 /\ defeito = "nenhum"
         /\ Encerrar(p, "entregue")
         /\ xml' = DocumentoGerado(p)
         /\ prometido' = SistemaDe(p, 2)

\* Mutation: a query that succeeded ends the search, found or not.
EncerraABusca_ErroSemAchar(cod, ret) == cod = "sucesso"

\* Only the note ends the search; not finding it, or failing, goes on.
EncerraABusca(cod, ret) == cod = "sucesso" /\ ret = "encontrada"

\* Mutation: whatever the failure, the other queue answers.
PassaParaOADN_ErroQualquerFalha(cod, ret) ==
  cod # "sucesso" \/ OperacaoNaoSuportada(ret)

\* Only the class that does not implement it hands the distribution over.
PassaParaOADN(cod, ret) == cod = "sucesso" /\ OperacaoNaoSuportada(ret)

\* The requests that ask two systems one after the other.
PassaAdiante(p, k, cod, ret) ==
  /\ k = 1
  /\ IF pedido[p].tipo = "consulta-dps"
     THEN ~ EncerraABusca(cod, ret)
     ELSE PassaParaOADN(cod, ret)

\* Mutation: the failure of the second question is what the client reads.
RespostaDaRecusa_ErroDaPergunta(cod) ==
  IF cod = "sucesso" THEN "operacao_nao_suportada" ELSE cod

\* naoSuportada asks for the capabilities only to enrich its own answer.
RespostaDaRecusa(cod) == "operacao_nao_suportada"

SeguirOperacao(p, k, cod, ret) ==
  LET recusa == k < 3 /\ cod = "sucesso" /\ OperacaoNaoSuportada(ret)
  IN  \/ /\ k = 3
         /\ Encerrar(p, RespostaDaRecusa(cod))
      \/ /\ PassaAdiante(p, k, cod, ret)
         /\ Seguir(p, 2)
      \/ /\ k < 3 /\ ~ PassaAdiante(p, k, cod, ret)
         /\ recusa
         /\ Seguir(p, 3)
      \/ /\ k < 3 /\ ~ PassaAdiante(p, k, cod, ret)
         /\ ~ recusa
         /\ Encerrar(p, IF cod = "sucesso" THEN StatusDe(p, ret) ELSE cod)

\* The call of a request is answered and its handler goes on.
Voltar(p, k) ==
  LET c == <<p, k>>
  IN  /\ etapa[p] = k
      /\ P!Responder(c)
      /\ pedido[p].tipo = "xml" => codigo'[c] # "desfecho_indeterminado"
      /\ \E r \in Devolve(p, k) : retorno' = [retorno EXCEPT ![c] = r]
      /\ IF pedido[p].tipo = "xml"
         THEN SeguirXML(p, k, codigo'[c])
         ELSE /\ SeguirOperacao(p, k, codigo'[c], retorno'[c])
              /\ UNCHANGED <<xml, prometido>>
      /\ filas' = IF retorno'[c] = "fila" /\ codigo'[c] = "sucesso"
                  THEN filas \union {Lugar(p, k)} ELSE filas
      /\ UNCHANGED <<hoje, registro, cliente>>

\* Every request was used and answered.
Fim ==
  /\ \A p \in Pedidos : etapa[p] = 4
  /\ UNCHANGED vars

Next ==
  \/ \E p \in Pedidos : Comecar(p)
  \/ \E p \in Pedidos, k \in 1..2 : Chegar(p, k)
  \/ \E p \in Pedidos, k \in 1..3 : Voltar(p, k)
  \/ ProcessarLote
  \/ PassarDia
  \/ Fim

Spec == Init /\ [][Next]_vars

-----------------------------------------------------------------------------
Resultados ==
  P!Codigos \union {"nenhum", "entregue", "xml_nao_montado", "layout_divergente",
    "regras_de_negocio", "autorizado", "processando", "rejeitado", "concluido",
    "encontrada", "ausente", "fila", "recusada", "vazia", "erro"}

TypeOK ==
  /\ hoje \in 0..MaxHoje
  /\ emissor \in Emissores
  /\ regime \in OpSimpNac
  /\ prometido \in Sistemas
  /\ xml.tpAmb \in Ambientes \union {"sem", "nenhum"}
  /\ \A p \in Pedidos : pedido[p].tipo \in Tipos \union {"nenhum"}
  /\ etapa \in [Pedidos -> 0..4]
  /\ \A p \in Pedidos : etapa[p] = 0 <=> pedido[p].tipo = "nenhum"
  /\ \A p \in Pedidos : etapa[p] = 4 <=> resultado[p] # "nenhum"
  /\ resultado \in [Pedidos -> Resultados]
  /\ registro \in [Lugares -> SituacoesNoFisco]
  /\ havia \in [Pedidos -> BOOLEAN]
  /\ filas \subseteq Lugares
  /\ codigo \in [Chamadas -> P!Codigos \union {"pendente"}]
  /\ transmitidas \in [Chamadas -> 0..1]

DoTipo(tipo) == {p \in Pedidos : pedido[p].tipo = tipo}

\* A document is never in two systems of one environment at once, however
\* often its transmission is repeated and on whatever day: handleTransmissao
\* works the route out of the finished document alone (rota.go, DaDPSPronta).
UmaNotaPorDPS ==
  \A a \in Ambientes :
    Cardinality({s \in Sistemas : registro[<<s, a>>] # "nenhuma"}) <= 1

\* A document that names its environment is received in that environment only,
\* whatever the request that transmits it says (fiscal.go, AmbienteDoXML).
SoSaiNoAmbienteGerado ==
  xml.tpAmb \in Ambientes =>
    \A l \in Lugares : registro[l] # "nenhuma" => l[2] = xml.tpAmb

\* What a system has of the document, some request has told its client of, or
\* has told it that the outcome is unknown, or is still running: no answer that
\* invites the client to issue another document hides one that exists.
\* "falha_na_lib" counts as telling, although README.md:356 calls it a known error
\* of the library: it is also the code of an answer that could not be read, after
\* the document left (FalhaNaLibEhErroDaLib of Despacho, which the code violates).
NotaSemAvisoNaoExiste ==
  (\E l \in Lugares : registro[l] # "nenhuma") =>
    \E p \in DoTipo("transmissao") :
      /\ transmitidas[<<p, 2>>] = 1
      /\ \/ etapa[p] < 4
         \/ resultado[p] \in {"autorizado", "processando", "erro",
                              "desfecho_indeterminado", "falha_na_lib"}

\* Who was told "authorised" has a note: a lot that was only taken in is not
\* one (resposta.go, AguardaProcessamento and LoteRps.Status).
AutorizadoSoSeExiste ==
  \A p \in Pedidos :
    resultado[p] \in {"autorizado", "encontrada"} =>
      \E a \in Ambientes, s \in Sistemas : registro[<<s, a>>] \in TemNota

\* consulta-dps says that a DPS became no note only when there was none as it
\* began, unless the query to the first system failed: that one it passes over
\* on purpose (http.go, handleConsultaDPS).
AusenteSoSeNaoExiste ==
  \A p \in DoTipo("consulta-dps") :
    resultado[p] = "ausente" /\ havia[p] =>
      /\ TemDoisCaminhos(emissor)
      /\ \/ codigo[<<p, 1>>] # "sucesso"
         \/ retorno[<<p, 1>>] \notin {"ausente", "encontrada"}

\* A cancellation by the key speaks with the system that generated the note,
\* in a municipality that has notes in two (rota.go, DaNota and DoEvento).
CancelaOndeANotaEsta ==
  \A p \in DoTipo("cancelamento") : SistemaDe(p, 2) = pedido[p].nota

\* "The class does not implement it" is answered exactly when the class said
\* so, whatever becomes of the second question of naoSuportada, and then nothing
\* of the document left (http.go, naoSuportada and capacidades).
NaoSuportadaDizAVerdade ==
  \A p \in DoTipo("transmissao") \union DoTipo("cancelamento") :
    /\ etapa[p] = 4 /\ retorno[<<p, 2>>] = "naoImplementada"
         => resultado[p] = "operacao_nao_suportada"
    /\ resultado[p] = "operacao_nao_suportada" => transmitidas[<<p, 2>>] = 0

\* A document is delivered by the generation only after its rules were run
\* without complaint or the library said it has none to run: a validation that
\* failed for any other reason delivers nothing (fiscal.go, validarRegras).
CarimboFoiDado ==
  \A p \in DoTipo("xml") :
    resultado[p] = "entregue" =>
      \/ codigo[<<p, 2>>] = "operacao_nao_suportada"
      \/ codigo[<<p, 2>>] = "sucesso" /\ retorno[<<p, 2>>] = "semMensagens"

\* All the distributions of a municipality are answered by one queue, so the
\* NSU the client keeps stays an index of that queue, through every failure in
\* between (http.go, handleDistribuicao).
CursorNaoTrocaDeFila == Cardinality({l[1] : l \in filas}) <= 1

\* A document leaves by the provider that the answer of /xml named: the request
\* decides in the generation and the XML in the transmission, by the same two
\* fields (docs/LIMITACOES.md:133-135).  The code keeps it while the competence is
\* written AAAA-MM-DD and no line of the table is for the regime that ToINI writes
\* in place of one left out (ini.go:65); each of the two is needed.
GeracaoETransmissaoConcordam ==
  \A p \in DoTipo("transmissao") : SistemaDe(p, 2) = prometido

=============================================================================
