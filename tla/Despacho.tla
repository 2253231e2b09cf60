------------------------------ MODULE Despacho ------------------------------
(***************************************************************************)
(* How the API hands calls of the fiscal library to the fiscal-worker      *)
(* processes and classifies what happened to them.                         *)
(*                                                                         *)
(* Client side: poolWorkers.chamar (internal/acbr/remoto.go).  Worker      *)
(* side: RPCHandler (internal/acbr/rpcserver.go) inside the process of     *)
(* cmd/fiscal-worker/main.go, which may crash, be recycled, be stopped and *)
(* be started again by the supervisor.  The two sides share nothing but    *)
(* one connection per call, so a caller that gives up leaves its request   *)
(* behind in the worker.                                                   *)
(*                                                                         *)
(* Timers are left untimed: a deadline may expire in any state in which    *)
(* the code waits under it.  The order in which the channel `livres` hands *)
(* out the free slots is left open too, which allows every order the FIFO  *)
(* channel can produce and more.                                           *)
(***************************************************************************)
EXTENDS Integers, FiniteSets

CONSTANTS
  Chamadas,       \* the calls made to the pool; each is one poolWorkers.chamar
  Transmissoras,  \* those whose method is not in metodosLocais (rpc.go)
  Workers,        \* the destinations of ACBR_WORKERS
  SemLib,         \* workers built without the native library (the stub binding)
  Slots,          \* ACBR_WORKER_SLOTS, the same on both sides
  MaxCalls,       \* ACBR_WORKER_MAX_CALLS; 0 never recycles
  MaxParadas,     \* bound: crashes, signals and expired drains, all workers
  SemVaga         \* rota of a call that never obtained a slot

Vagas == Workers \X (1..Slots)

ASSUME DespachoAssumption ==
  /\ Transmissoras \subseteq Chamadas
  /\ SemLib \subseteq Workers
  /\ Slots \in Nat \ {0}
  /\ MaxCalls \in Nat
  /\ MaxParadas \in Nat
  /\ SemVaga \notin Vagas

VARIABLES
  fase,          \* where each caller is inside poolWorkers.chamar
  desfecho,      \* what chamar returned to it
  rota,          \* the slot it took from livres
  livres,        \* the slots in the channel poolWorkers.livres
  quarentena,    \* the slots held back by the quarantine goroutines
  serv,          \* the request of each call on the worker's side
  resposta,      \* the Resposta the worker produced for it
  transmitidas,  \* how many times it reached the SEFAZ, the city or the bank
  proc,          \* each worker process
  atendidas,     \* its counter of calls since boot
  fechamentos,   \* how many times it closed the channel `reciclar`
  paradas        \* bound counter, see MaxParadas

vars == <<fase, desfecho, rota, livres, quarentena, serv, resposta,
          transmitidas, proc, atendidas, fechamentos, paradas>>

lado_cliente == <<fase, desfecho, rota, livres, quarentena>>
lado_worker  == <<serv, resposta, transmitidas, proc, atendidas,
                  fechamentos, paradas>>

Desfechos == {"nenhum", "ok", "erroDaLib", "naoSuportado", "indisponivel",
              "indeterminado", "ilegivel"}

\* Requests a worker process still has to answer; those holding one of its
\* `vagas`; those inside the native library.
Vivas     == {"conexao", "aceita", "nativa", "transmitiu", "respondendo"}
Ocupantes == {"nativa", "transmitiu", "respondendo"}
NaLib     == {"nativa", "transmitiu"}

\* The slot is back in the caller's hands only outside these phases.
ComVaga   == {"comVaga", "enviada", "lendo"}

NoWorker(w, estados) ==
  {c \in Chamadas : serv[c] \in estados /\ rota[c][1] = w}

\* Definitions named X_Erro... are mutations of the one that follows them: each
\* is a plausible bug, and some property below fails when it is put in place.

Init ==
  /\ fase         = [c \in Chamadas |-> "nova"]
  /\ desfecho     = [c \in Chamadas |-> "nenhum"]
  /\ rota         = [c \in Chamadas |-> SemVaga]
  /\ livres       = Vagas
  /\ quarentena   = {}
  /\ serv         = [c \in Chamadas |-> "fora"]
  /\ resposta     = [c \in Chamadas |-> "nenhuma"]
  /\ transmitidas = [c \in Chamadas |-> 0]
  /\ proc         = [w \in Workers |-> "ouvindo"]
  /\ atendidas    = [w \in Workers |-> 0]
  /\ fechamentos  = [w \in Workers |-> 0]
  /\ paradas      = 0

-----------------------------------------------------------------------------
(* The caller, inside poolWorkers.chamar.                                  *)

\* Mutation: the classification forgets which methods transmit.
ErroDeTransporte_ErroSempreRepetivel(c) == "indisponivel"

\* What erroDeTransporte returns once the request has left.
ErroDeTransporte(c) ==
  IF c \in Transmissoras THEN "indeterminado" ELSE "indisponivel"

\* Mutation: the sentinels are not rebuilt on this side.
ErroDaResposta_ErroCru(r) == r

\* What the caller makes of a Resposta it could read (erroDaResposta).
ErroDaResposta(r) ==
  CASE r = "indisponivel" -> "indisponivel"
    [] r = "naoSuportado" -> "naoSuportado"
    [] r = "erro"         -> "erroDaLib"
    [] OTHER              -> "ok"

\* The answer of chamar without a slot in hand.
Responder(c, d) ==
  /\ fase'     = [fase EXCEPT ![c] = "fim"]
  /\ desfecho' = [desfecho EXCEPT ![c] = d]

\* ... and with one: the deferred function puts it back at once.
ResponderEDevolver(c, d) ==
  /\ Responder(c, d)
  /\ livres' = livres \union {rota[c]}
  /\ UNCHANGED <<rota, quarentena>>
  /\ UNCHANGED lado_worker

Chamar(c) ==
  /\ fase[c] = "nova"
  /\ fase' = [fase EXCEPT ![c] = "fila"]
  /\ UNCHANGED <<desfecho, rota, livres, quarentena>>
  /\ UNCHANGED lado_worker

PegarVaga(c) ==
  /\ fase[c] = "fila"
  /\ \E v \in livres :
       /\ livres' = livres \ {v}
       /\ rota'   = [rota EXCEPT ![c] = v]
  /\ fase' = [fase EXCEPT ![c] = "comVaga"]
  /\ UNCHANGED <<desfecho, quarentena>>
  /\ UNCHANGED lado_worker

\* The queue timer fires first.
FilaEsgota(c) ==
  /\ fase[c] = "fila"
  /\ Responder(c, "indisponivel")
  /\ UNCHANGED <<rota, livres, quarentena>>
  /\ UNCHANGED lado_worker

\* Mutation: the slot only covers the dial.
Enviar_ErroDevolveCedo(c) ==
  /\ fase[c] = "comVaga"
  /\ proc[rota[c][1]] = "ouvindo"
  /\ fase'   = [fase EXCEPT ![c] = "enviada"]
  /\ serv'   = [serv EXCEPT ![c] = "conexao"]
  /\ livres' = livres \union {rota[c]}
  /\ UNCHANGED <<desfecho, rota, quarentena, resposta, transmitidas,
                 proc, atendidas, fechamentos, paradas>>

\* The dial succeeds and the request is written: from here on nobody can
\* take it back.
Enviar(c) ==
  /\ fase[c] = "comVaga"
  /\ proc[rota[c][1]] = "ouvindo"
  /\ fase' = [fase EXCEPT ![c] = "enviada"]
  /\ serv' = [serv EXCEPT ![c] = "conexao"]
  /\ UNCHANGED <<desfecho, rota, livres, quarentena, resposta, transmitidas,
                 proc, atendidas, fechamentos, paradas>>

\* Mutation: the deferred return is not skipped for a quarantined slot.
DialFalha_ErroDevolveDuasVezes(c) ==
  /\ fase[c] = "comVaga"
  /\ Responder(c, "indisponivel")
  /\ quarentena' = quarentena \union {rota[c]}
  /\ livres'     = livres \union {rota[c]}
  /\ UNCHANGED rota
  /\ UNCHANGED lado_worker

\* Mutation: nobody puts the slot back after the quarantine.
DialFalha_ErroPerdeVaga(c) ==
  /\ fase[c] = "comVaga"
  /\ Responder(c, "indisponivel")
  /\ UNCHANGED <<rota, livres, quarentena>>
  /\ UNCHANGED lado_worker

\* The dial fails: nobody listens, or the backlog is full.  The slot goes to
\* the quarantine goroutine.
DialFalha(c) ==
  /\ fase[c] = "comVaga"
  /\ Responder(c, "indisponivel")
  /\ quarentena' = quarentena \union {rota[c]}
  /\ UNCHANGED <<rota, livres>>
  /\ UNCHANGED lado_worker

QuarentenaAcaba(v) ==
  /\ v \in quarentena
  /\ quarentena' = quarentena \ {v}
  /\ livres'     = livres \union {v}
  /\ UNCHANGED <<fase, desfecho, rota>>
  /\ UNCHANGED lado_worker

\* Mutation: keep-alive on, net/http resends over a new connection.
ConexaoCai_ErroReenvia(c) ==
  /\ fase[c] = "enviada"
  /\ serv[c] = "caiu"
  /\ fase' = [fase EXCEPT ![c] = "comVaga"]
  /\ UNCHANGED <<desfecho, rota, livres, quarentena>>
  /\ UNCHANGED lado_worker

\* The connection breaks before the response's headers.
ConexaoCai(c) ==
  /\ fase[c] = "enviada"
  /\ serv[c] = "caiu"
  /\ ResponderEDevolver(c, ErroDeTransporte(c))

\* Mutation: an expired deadline is reported as any other failure.
PrazoDaChamada_ErroGenerico(c) ==
  /\ fase[c] \in {"comVaga", "enviada"}
  /\ ResponderEDevolver(c, "erroDaLib")

\* Mutation: the call has no deadline of its own.
PrazoDaChamada_ErroSemPrazo(c) ==
  /\ fase[c] = "enviada"
  /\ serv[c] = "caiu"
  /\ ResponderEDevolver(c, ErroDeTransporte(c))

\* The deadline of the call expires while cli.Do dials, writes or waits for the
\* headers; cli.Do does not say which.  Nothing stops the native call.
PrazoDaChamada(c) ==
  /\ fase[c] \in {"comVaga", "enviada"}
  /\ ResponderEDevolver(c, ErroDeTransporte(c))

\* Headers arrive: cli.Do returns, the body is still to be decoded.
CabecalhoChega(c) ==
  /\ fase[c] = "enviada"
  /\ serv[c] \in {"respondendo", "respondida"}
  /\ fase' = [fase EXCEPT ![c] = "lendo"]
  /\ UNCHANGED <<desfecho, rota, livres, quarentena>>
  /\ UNCHANGED lado_worker

LerResposta(c) ==
  /\ fase[c] = "lendo"
  /\ serv[c] = "respondida"
  /\ ResponderEDevolver(c, ErroDaResposta(resposta[c]))

\* The body breaks off or the deadline expires while it is decoded
\* ("resposta ilegível").
LeituraFalha(c) ==
  /\ fase[c] = "lendo"
  /\ ResponderEDevolver(c, "ilegivel")

-----------------------------------------------------------------------------
(* The request inside the worker (the handler of POST /rpc).               *)

\* The connection is accepted and the Pedido decoded.
Aceitar(c) ==
  /\ serv[c] = "conexao"
  /\ serv' = [serv EXCEPT ![c] = "aceita"]
  /\ UNCHANGED lado_cliente
  /\ UNCHANGED <<resposta, transmitidas, proc, atendidas, fechamentos, paradas>>

\* The caller's deadline expired while the body was still being written: the
\* Pedido does not decode and is refused with 400.
PedidoTruncado(c) ==
  /\ serv[c] = "conexao"
  /\ fase[c] = "fim"
  /\ serv'     = [serv EXCEPT ![c] = "respondida"]
  /\ resposta' = [resposta EXCEPT ![c] = "erro"]
  /\ UNCHANGED lado_cliente
  /\ UNCHANGED <<transmitidas, proc, atendidas, fechamentos, paradas>>

\* contar(), as a value: the call counter and the number of closes after it.
Contadas(w)  == IF MaxCalls = 0 THEN atendidas[w] ELSE atendidas[w] + 1
\* Mutation: >= instead of =.
Fechados_ErroMaiorOuIgual(w) ==
  IF MaxCalls # 0 /\ Contadas(w) >= MaxCalls
  THEN fechamentos[w] + 1 ELSE fechamentos[w]

Fechados(w) ==
  IF MaxCalls # 0 /\ Contadas(w) = MaxCalls
  THEN fechamentos[w] + 1 ELSE fechamentos[w]

\* Mutation: the worker trusts the client's limit.
Despachar_ErroSemVagas(c) ==
  LET w == rota[c][1] IN
  /\ serv[c] = "aceita"
  /\ serv'        = [serv EXCEPT ![c] = "nativa"]
  /\ atendidas'   = [atendidas EXCEPT ![w] = Contadas(w)]
  /\ fechamentos' = [fechamentos EXCEPT ![w] = Fechados(w)]
  /\ UNCHANGED lado_cliente
  /\ UNCHANGED <<resposta, transmitidas, proc, paradas>>

\* A free place in `vagas` wins the select; the caller may already be gone.
Despachar(c) ==
  LET w == rota[c][1] IN
  /\ serv[c] = "aceita"
  /\ Cardinality(NoWorker(w, Ocupantes)) < Slots
  /\ serv'        = [serv EXCEPT ![c] = "nativa"]
  /\ atendidas'   = [atendidas EXCEPT ![w] = Contadas(w)]
  /\ fechamentos' = [fechamentos EXCEPT ![w] = Fechados(w)]
  /\ UNCHANGED lado_cliente
  /\ UNCHANGED <<resposta, transmitidas, proc, paradas>>

\* The caller's departure wins the select: 503 written to nobody.
DesistirDaVaga(c) ==
  /\ serv[c] = "aceita"
  /\ fase[c] = "fim"
  /\ serv'     = [serv EXCEPT ![c] = "respondida"]
  /\ resposta' = [resposta EXCEPT ![c] = "indisponivel"]
  /\ UNCHANGED lado_cliente
  /\ UNCHANGED <<transmitidas, proc, atendidas, fechamentos, paradas>>

\* The native call puts the document on the wire.
Transmitir(c) ==
  /\ serv[c] = "nativa"
  /\ c \in Transmissoras
  /\ rota[c][1] \notin SemLib
  /\ serv'         = [serv EXCEPT ![c] = "transmitiu"]
  /\ transmitidas' = [transmitidas EXCEPT ![c] = @ + 1]
  /\ UNCHANGED lado_cliente
  /\ UNCHANGED <<resposta, proc, atendidas, fechamentos, paradas>>

\* What a native call can come back with: the stub only knows one answer, an
\* operation the library lacks is refused before anything is sent.
Retornos(c) ==
  IF rota[c][1] \in SemLib THEN {"indisponivel"}
  ELSE IF serv[c] = "transmitiu" THEN {"ok", "erro"}
  ELSE {"ok", "erro", "naoSuportado"}

\* The native call returns and the handler starts writing the response.
Retornar(c) ==
  /\ serv[c] \in NaLib
  /\ \E r \in Retornos(c) : resposta' = [resposta EXCEPT ![c] = r]
  /\ serv' = [serv EXCEPT ![c] = "respondendo"]
  /\ UNCHANGED lado_cliente
  /\ UNCHANGED <<transmitidas, proc, atendidas, fechamentos, paradas>>

\* The handler returns: the place in `vagas` is free, the response complete.
Concluir(c) ==
  /\ serv[c] = "respondendo"
  /\ serv' = [serv EXCEPT ![c] = "respondida"]
  /\ UNCHANGED lado_cliente
  /\ UNCHANGED <<resposta, transmitidas, proc, atendidas, fechamentos, paradas>>

-----------------------------------------------------------------------------
(* The worker process.                                                     *)

\* The requests in `perdidas` lose their connection.
Cortar(perdidas) ==
  serv' = [c \in Chamadas |-> IF c \in perdidas THEN "caiu" ELSE serv[c]]

\* Shutdown starts, after a recycle or a signal: the listener closes, and
\* with it the connections that were not accepted yet.
Drenar(w) ==
  /\ proc[w] = "ouvindo"
  /\ \/ fechamentos[w] > 0 /\ UNCHANGED paradas
     \/ paradas < MaxParadas /\ paradas' = paradas + 1
  /\ \E perdidas \in SUBSET NoWorker(w, {"conexao"}) : Cortar(perdidas)
  /\ proc' = [proc EXCEPT ![w] = "drenando"]
  /\ UNCHANGED lado_cliente
  /\ UNCHANGED <<resposta, transmitidas, atendidas, fechamentos>>

\* Shutdown found every connection finished and the process exits.
Sair(w) ==
  /\ proc[w] = "drenando"
  /\ NoWorker(w, Vivas) = {}
  /\ proc' = [proc EXCEPT ![w] = "parado"]
  /\ UNCHANGED lado_cliente
  /\ UNCHANGED <<serv, resposta, transmitidas, atendidas, fechamentos, paradas>>

\* A SIGSEGV of the library, or Shutdown running out of time: whatever the
\* process still had is lost with it.
Morrer(w) ==
  /\ proc[w] \in {"ouvindo", "drenando"}
  /\ paradas < MaxParadas
  /\ paradas' = paradas + 1
  /\ proc'    = [proc EXCEPT ![w] = "parado"]
  /\ Cortar(NoWorker(w, Vivas))
  /\ UNCHANGED lado_cliente
  /\ UNCHANGED <<resposta, transmitidas, atendidas, fechamentos>>

\* The supervisor starts the process again: a new RPCHandler, a new socket.
Reiniciar(w) ==
  /\ proc[w] = "parado"
  /\ proc'        = [proc EXCEPT ![w] = "ouvindo"]
  /\ atendidas'   = [atendidas EXCEPT ![w] = 0]
  /\ fechamentos' = [fechamentos EXCEPT ![w] = 0]
  /\ UNCHANGED lado_cliente
  /\ UNCHANGED <<serv, resposta, transmitidas, paradas>>

\* Every call answered, nothing left behind: the only state that may stop.
Repouso ==
  /\ \A c \in Chamadas : fase[c] = "fim" /\ serv[c] \notin Vivas
  /\ livres = Vagas
  /\ \A w \in Workers : proc[w] = "ouvindo" /\ fechamentos[w] = 0
  /\ UNCHANGED vars

-----------------------------------------------------------------------------

PassoDoChamador(c) ==
  \/ PegarVaga(c) \/ FilaEsgota(c) \/ Enviar(c) \/ DialFalha(c)
  \/ ConexaoCai(c) \/ PrazoDaChamada(c) \/ CabecalhoChega(c)
  \/ LerResposta(c) \/ LeituraFalha(c)

PassoDoHandler(c) ==
  \/ Aceitar(c) \/ PedidoTruncado(c) \/ Despachar(c) \/ DesistirDaVaga(c)
  \/ Transmitir(c) \/ Retornar(c) \/ Concluir(c)

PassoDoProcesso(w) == Drenar(w) \/ Sair(w) \/ Morrer(w) \/ Reiniciar(w)

Next ==
  \/ \E c \in Chamadas : Chamar(c) \/ PassoDoChamador(c) \/ PassoDoHandler(c)
  \/ \E v \in Vagas : QuarentenaAcaba(v)
  \/ \E w \in Workers : PassoDoProcesso(w)
  \/ Repouso

Spec == Init /\ [][Next]_vars

\* What the code alone guarantees: the caller's timers and its deferred
\* functions run.  Nothing is assumed of the worker or of the library.
JusticaDoCliente ==
  /\ \A c \in Chamadas : WF_vars(PassoDoChamador(c))
  /\ \A v \in Vagas : WF_vars(QuarentenaAcaba(v))

\* The worker's scheduler and the supervisor run too; the library may still
\* hang, so a native call need not return.
JusticaDoWorker ==
  /\ \A c \in Chamadas :
       WF_vars(Aceitar(c) \/ PedidoTruncado(c) \/ Despachar(c)
                 \/ DesistirDaVaga(c) \/ Concluir(c))
  /\ \A w \in Workers :
       WF_vars(Sair(w) \/ Reiniciar(w) \/ (fechamentos[w] > 0 /\ Drenar(w)))

SpecJusta == Spec /\ JusticaDoCliente
SpecJustaDosDoisLados == Spec /\ JusticaDoCliente /\ JusticaDoWorker

-----------------------------------------------------------------------------
(* Properties.                                                             *)

TypeOK ==
  /\ fase \in [Chamadas -> {"nova", "fila", "fim"} \union ComVaga]
  /\ desfecho \in [Chamadas -> Desfechos]
  /\ rota \in [Chamadas -> Vagas \union {SemVaga}]
  /\ livres \subseteq Vagas
  /\ quarentena \subseteq Vagas
  /\ serv \in [Chamadas -> {"fora", "caiu", "respondida"} \union Vivas]
  /\ resposta \in [Chamadas -> {"nenhuma", "ok", "erro", "naoSuportado",
                                "indisponivel"}]
  /\ transmitidas \in [Chamadas -> Nat]
  /\ proc \in [Workers -> {"ouvindo", "drenando", "parado"}]
  /\ atendidas \in [Workers -> Nat]
  /\ fechamentos \in [Workers -> Nat]
  /\ paradas \in 0..MaxParadas

\* The contract of remoto.go:229-240 and README.md:355: a caller told
\* "lib_indisponivel" may repeat, because its operation did not leave the host
\* and never will, not even from a request it left behind in a worker.
IndisponivelNaoTransmite ==
  \A c \in Chamadas : desfecho[c] = "indisponivel" => transmitidas[c] = 0

\* novoDestino turns keep-alive off so that net/http never resends a request by
\* itself: no call reaches the SEFAZ twice, whatever crashes in between.
SemReenvio == \A c \in Chamadas : transmitidas[c] <= 1

\* Of all answers only "indeterminado" leaves something open: after any other
\* one, whatever the abandoned request still does, it no longer transmits.
SoIndeterminadoMudaDepois ==
  [][\A c \in Chamadas :
       fase[c] = "fim" /\ desfecho[c] # "indeterminado"
         => transmitidas'[c] = transmitidas[c]]_vars

\* Each slot is in exactly one place: in the channel, in quarantine or with one
\* caller.  A slot lost shrinks the pool for good; one duplicated sends a
\* worker more calls than it was configured for.
VagasConservadas ==
  LET donos(v) == {c \in Chamadas : fase[c] \in ComVaga /\ rota[c] = v} IN
  /\ livres \intersect quarentena = {}
  /\ \A v \in Vagas :
       IF v \in livres \union quarentena
       THEN donos(v) = {}
       ELSE \E c \in Chamadas : donos(v) = {c}

\* The worker bounds the library's concurrency by itself, also when callers
\* that gave up left requests running (rpcserver.go:15-17).
ConcorrenciaNativa ==
  \A w \in Workers : Cardinality(NoWorker(w, Ocupantes)) <= Slots

\* README.md:137: one crash takes with it at most as many waiting callers as the
\* worker has slots, however many requests are piled up inside it.
RaioDaQueda ==
  \A w \in Workers :
    Cardinality({c \in Chamadas : fase[c] \in {"enviada", "lendo"}
                                 /\ rota[c][1] = w}) <= Slots

\* contar() closes `reciclar` at most once per process; closing it again would
\* panic under every call that follows.
ReciclarFechaUmaVez == \A w \in Workers : fechamentos[w] <= 1

\* Mutation: the case of ErrIndeterminado is missing.
CodigoDoErroDaLib_ErroSemIndeterminado(d) ==
  CASE d = "indisponivel" -> "lib_indisponivel"
    [] d = "naoSuportado" -> "operacao_nao_suportada"
    [] OTHER              -> "falha_na_lib"

\* The code of internal/fiscal/fiscal.go for each error of the pool.
CodigoDoErroDaLib(d) ==
  CASE d = "indisponivel"  -> "lib_indisponivel"
    [] d = "naoSuportado"  -> "operacao_nao_suportada"
    [] d = "indeterminado" -> "desfecho_indeterminado"
    [] OTHER               -> "falha_na_lib"

Codigo(c) ==
  IF fase[c] # "fim" THEN "pendente"
  ELSE IF desfecho[c] = "ok" THEN "sucesso"
  ELSE CodigoDoErroDaLib(desfecho[c])

Contrato == INSTANCE Promessa WITH codigo <- [c \in Chamadas |-> Codigo(c)]

\* The pool and the workers together keep the contract of Promessa.
CumprePromessa == Contrato!Spec

\* Every call is answered, by the caller's own timers, even when the library
\* hangs and no worker ever makes a step.
TodaChamadaResponde ==
  \A c \in Chamadas : fase[c] = "fila" ~> fase[c] = "fim"

\* No path of chamar keeps a slot: each one comes back to the channel.
TodaVagaVolta ==
  \A v \in Vagas : v \notin livres ~> v \in livres

-----------------------------------------------------------------------------
(* What the repository says and the code does not do; see the README.      *)

\* README.md:356: "falha_na_lib" is an error the library reported.
FalhaNaLibEhErroDaLib ==
  \A c \in Chamadas : Codigo(c) = "falha_na_lib" => resposta[c] = "erro"

\* config.go:63-64: with the timeout, a library that hangs does not keep a slot
\* forever.
LibTravadaSoltaAVaga ==
  \A w \in Workers : []<>(Cardinality(NoWorker(w, Ocupantes)) < Slots)

=============================================================================
