----------------------------- MODULE Processos -----------------------------
(***************************************************************************)
(* The processes and their clocks: the API (cmd/api/main.go) and the       *)
(* fiscal-workers (cmd/fiscal-worker/main.go) from the signal that ends    *)
(* them to their exit, the two deadlines of a call (poolWorkers.chamar),   *)
(* and the readiness probe (handleReadyz over poolWorkers.saudavel).       *)
(*                                                                         *)
(* Time is a countdown per timer, which Tick moves for all of them at      *)
(* once.  A timer that is due may fire late, by at most Atraso ticks: that *)
(* is what scheduling, an answer on its way and the polling of Shutdown    *)
(* take, and what margemDeEncerramento is there to absorb.                 *)
(*                                                                         *)
(* Crashes, unreadable answers and what the client is told belong to       *)
(* Despacho; here a request only has a place and a time.                   *)
(***************************************************************************)
EXTENDS Integers, Sequences, FiniteSets

CONSTANTS
  Pedidos,        \* requests to the API
  Transmissoras,  \* those whose first call transmits a document
  Duplos,         \* those whose handler may make further calls
  Workers,        \* the fiscal-workers, each with one slot
  Destinos,       \* the same, in the order of ACBR_WORKERS
  Api, Sonda,     \* the names of the timers of the API and of the probe
  Nenhum,         \* no worker
  Teto,           \* ACBR_WORKER_TIMEOUT_SECONDS, the same in every process
  Margem,         \* margemDeEncerramento
  PrazoDaSonda,   \* the deadline of saudavel
  Atraso,         \* how late a timer may fire
  MaxSinais,      \* bound: signals to workers and freezes of them
  MaxSondas       \* bound: probes

ASSUME ProcessosAssumption ==
  /\ Transmissoras \subseteq Pedidos
  /\ Duplos \subseteq Pedidos
  /\ Destinos \in Seq(Workers) /\ Destinos # <<>>
  /\ Workers = {Destinos[i] : i \in 1..Len(Destinos)}
  /\ Len(Destinos) = Cardinality(Workers)
  /\ Nenhum \notin Workers
  /\ Pedidos \intersect Workers = {} /\ Api # Sonda
  /\ {Api, Sonda} \intersect (Pedidos \union Workers) = {}
  /\ {Teto, Margem, PrazoDaSonda} \subseteq Nat \ {0}
  /\ Atraso \in 0..(Margem - 1)
  /\ MaxSinais \in Nat /\ MaxSondas \in Nat

VARIABLES
  api,        \* the process of the API
  pedido,     \* where each request is
  numero,     \* the call it is making
  vaga,       \* the worker whose slot it holds
  livres,     \* the slots in the channel
  quarentena, \* those a goroutine will put back later
  proc,       \* each worker process
  naLib,      \* the calls in the library: <<worker, request, number>>
  saiu,       \* the requests whose document reached the outside
  sonda,      \* the probe: where it is in Destinos, 0 when it is not asking
  pronto,     \* its last answer
  firmes,     \* the workers that listened ever since it began
  mudos,      \* those that were frozen at some moment of it
  tinhamVaga, \* the requests in their first call at the signal of the API
  falta,      \* what is left of each timer, 0 when it is not running
  sinais, sondas  \* bound counters, see MaxSinais and MaxSondas

vars == <<api, pedido, numero, vaga, livres, quarentena, proc, naLib, saiu,
          sonda, pronto, firmes, mudos, tinhamVaga, falta, sinais, sondas>>

chamadas == <<pedido, numero, vaga, livres, quarentena, saiu>>
saude    == <<sonda, pronto, firmes, mudos, sondas>>

Relogios == Pedidos \union Workers \union {Api, Sonda}

\* Definitions named X_Erro... are mutations of the one that follows them: each
\* is a plausible bug, and some property below fails when it is put in place.

Init ==
  /\ api        = "servindo"
  /\ pedido     = [p \in Pedidos |-> "novo"]
  /\ numero     = [p \in Pedidos |-> 1]
  /\ vaga       = [p \in Pedidos |-> Nenhum]
  /\ livres     = Workers
  /\ quarentena = {}
  /\ proc       = [w \in Workers |-> "ouvindo"]
  /\ naLib      = {}
  /\ saiu       = {}
  /\ sonda      = 0
  /\ pronto     = "nada"
  /\ firmes     = {}
  /\ mudos      = {}
  /\ tinhamVaga = {}
  /\ falta      = [t \in Relogios |-> 0]
  /\ sinais     = 0
  /\ sondas     = 0

-----------------------------------------------------------------------------
(* Time.                                                                   *)

Ligados ==
  {p \in Pedidos : pedido[p] \in {"fila", "chamada"}}
  \union {w \in Workers : proc[w] = "drenando"}
  \union {t \in {Api} : api = "drenando"}
  \union {t \in {Sonda} : sonda # 0}

Vencido(t) == t \in Ligados /\ falta[t] <= 0

\* The answer of a worker that is listening, and the refusal of one that is
\* not, take no time a deadline of seconds could notice.
SondaImediata == sonda # 0 /\ proc[Destinos[sonda]] # "mudo"

Tick ==
  /\ Ligados # {}
  /\ \A t \in Ligados : falta[t] > -Atraso
  /\ ~ SondaImediata
  /\ falta' = [t \in Relogios |-> IF t \in Ligados THEN falta[t] - 1 ELSE 0]
  /\ UNCHANGED <<api, proc, naLib, tinhamVaga, sinais>>
  /\ UNCHANGED chamadas /\ UNCHANGED saude

Marcar(t, prazo)   == falta' = [falta EXCEPT ![t] = prazo]
Desmarcar(t)       == falta' = [falta EXCEPT ![t] = 0]

\* Mutation: the margin is forgotten.
PrazoDeEncerramento_ErroSemMargem == Teto

\* How long a process waits for what it has in progress.
PrazoDeEncerramento == Teto + Margem

-----------------------------------------------------------------------------
(* A request in the API: its handler, and poolWorkers.chamar under it.     *)

\* Shutdown closes the listener first, so nothing arrives any more.
Chegar(p) ==
  /\ api = "servindo"
  /\ pedido[p] = "novo"
  /\ pedido' = [pedido EXCEPT ![p] = "fila"]
  /\ Marcar(p, Teto)
  /\ UNCHANGED <<api, numero, vaga, livres, quarentena, proc, naLib, saiu,
                 tinhamVaga, sinais>>
  /\ UNCHANGED saude

Respondido(p) ==
  /\ pedido' = [pedido EXCEPT ![p] = "respondido"]
  /\ numero' = [numero EXCEPT ![p] = 1]
  /\ Desmarcar(p)

\* A search in two systems, or a distribution that goes on to the ADN, may ask
\* for the capabilities of the class in a third call; a transmission has two.
Ultima(p) ==
  IF p \notin Duplos THEN 1 ELSE IF p \in Transmissoras THEN 2 ELSE 3

OutraChamada(p) ==
  /\ numero[p] < Ultima(p)
  /\ numero' = [numero EXCEPT ![p] = numero[p] + 1]
  /\ pedido' = [pedido EXCEPT ![p] = "fila"]
  /\ Marcar(p, Teto)

\* The call failed: only the first of a search goes on (handleConsultaDPS).
AposFalha(p) ==
  \/ Respondido(p)
  \/ p \notin Transmissoras /\ numero[p] = 1 /\ OutraChamada(p)

\* It was answered: a transmission goes on only when the class refused it, so
\* that nothing left (naoSuportada).
AposResposta(p) ==
  \/ Respondido(p)
  \/ p \notin saiu /\ OutraChamada(p)

\* With a slot in hand the deadline of the call begins.  A worker that listens
\* takes the call in, a frozen one leaves it in the socket.
PegarVaga(p, w) ==
  /\ pedido[p] = "fila"
  /\ w \in livres
  /\ proc[w] \in {"ouvindo", "mudo"}
  /\ livres' = livres \ {w}
  /\ vaga'   = [vaga EXCEPT ![p] = w]
  /\ pedido' = [pedido EXCEPT ![p] = "chamada"]
  /\ naLib'  = naLib \union {<<w, p, numero[p]>>}
  /\ Marcar(p, Teto)
  /\ UNCHANGED <<api, numero, quarentena, proc, saiu, tinhamVaga, sinais>>
  /\ UNCHANGED saude

\* ... and one whose socket is closed refuses it: nothing left, and the slot
\* stays away until the end of the quarantine.
DialFalha(p, w) ==
  /\ pedido[p] = "fila"
  /\ w \in livres
  /\ proc[w] \in {"drenando", "fora"}
  /\ livres'     = livres \ {w}
  /\ quarentena' = quarentena \union {w}
  /\ AposFalha(p)
  /\ UNCHANGED <<api, vaga, proc, naLib, saiu, tinhamVaga, sinais>>
  /\ UNCHANGED saude

FimDaQuarentena(w) ==
  /\ w \in quarentena
  /\ quarentena' = quarentena \ {w}
  /\ livres'     = livres \union {w}
  /\ UNCHANGED <<api, pedido, numero, vaga, proc, naLib, saiu, tinhamVaga,
                 falta, sinais>>
  /\ UNCHANGED saude

PrazoDaFila(p) ==
  /\ pedido[p] = "fila"
  /\ Vencido(p)
  /\ AposFalha(p)
  /\ UNCHANGED <<api, vaga, livres, quarentena, proc, naLib, saiu, tinhamVaga,
                 sinais>>
  /\ UNCHANGED saude

\* Mutation: the caller keeps the slot it gave back.
Devolver_ErroContinuaComEla(p) ==
  /\ livres' = livres \union {vaga[p]}
  /\ UNCHANGED vaga

\* The call is over for its caller: the slot goes back.
Devolver(p) ==
  /\ livres' = livres \union {vaga[p]}
  /\ vaga'   = [vaga EXCEPT ![p] = Nenhum]

\* The worker keeps the call that its caller abandons.
PrazoDaChamada(p) ==
  /\ pedido[p] = "chamada"
  /\ Vencido(p)
  /\ Devolver(p)
  /\ AposFalha(p)
  /\ UNCHANGED <<api, quarentena, proc, naLib, saiu, tinhamVaga, sinais>>
  /\ UNCHANGED saude

-----------------------------------------------------------------------------
(* A call in the library.                                                  *)

Corre(w) == proc[w] \in {"ouvindo", "drenando"}

Sair(w, p) ==
  /\ Corre(w)
  /\ <<w, p, 1>> \in naLib
  /\ p \in Transmissoras \ saiu
  /\ saiu' = saiu \union {p}
  /\ UNCHANGED <<api, pedido, numero, vaga, livres, quarentena, proc, naLib,
                 tinhamVaga, falta, sinais>>
  /\ UNCHANGED saude

\* It returns, perhaps to nobody.
Retornar(w, p, n) ==
  /\ Corre(w)
  /\ <<w, p, n>> \in naLib
  /\ naLib' = naLib \ {<<w, p, n>>}
  /\ IF pedido[p] = "chamada" /\ vaga[p] = w /\ numero[p] = n
     THEN Devolver(p) /\ AposResposta(p)
     ELSE UNCHANGED <<livres, vaga, pedido, numero, falta>>
  /\ UNCHANGED <<api, quarentena, proc, saiu, tinhamVaga, sinais>>
  /\ UNCHANGED saude

-----------------------------------------------------------------------------
(* The worker process.                                                     *)

Parou(w) == firmes' = firmes \ {w}

\* SIGTERM, or its own recycling: the listener closes.
SinalNoWorker(w) ==
  /\ proc[w] = "ouvindo"
  /\ sinais < MaxSinais
  /\ sinais' = sinais + 1
  /\ proc'   = [proc EXCEPT ![w] = "drenando"]
  /\ Marcar(w, PrazoDeEncerramento)
  /\ Parou(w)
  /\ UNCHANGED <<api, naLib, tinhamVaga, sonda, pronto, mudos, sondas>>
  /\ UNCHANGED chamadas

\* Shutdown returns with nothing in progress.
WorkerVazio(w) ==
  /\ proc[w] = "drenando"
  /\ \A e \in naLib : e[1] # w
  /\ proc' = [proc EXCEPT ![w] = "fora"]
  /\ Desmarcar(w)
  /\ UNCHANGED <<api, naLib, tinhamVaga, sinais>>
  /\ UNCHANGED chamadas /\ UNCHANGED saude

Cortados(w) == {p \in Pedidos : pedido[p] = "chamada" /\ vaga[p] = w}

\* Mutation: Shutdown waits for whatever is in progress.
WorkerPrazo_ErroSemPrazo(w) == FALSE /\ UNCHANGED vars

\* Shutdown gives up, the process ends, and with it every native call.  A
\* caller that is still there loses its connection.
WorkerPrazo(w) ==
  /\ proc[w] = "drenando"
  /\ Vencido(w)
  /\ proc'  = [proc EXCEPT ![w] = "fora"]
  /\ naLib' = {e \in naLib : e[1] # w}
  /\ pedido' = [p \in Pedidos |->
                 IF p \in Cortados(w) THEN "respondido" ELSE pedido[p]]
  /\ vaga'   = [p \in Pedidos |-> IF p \in Cortados(w) THEN Nenhum ELSE vaga[p]]
  /\ livres' = livres \union {x \in {w} : Cortados(w) # {}}
  /\ falta'  = [t \in Relogios |->
                 IF t \in Cortados(w) \union {w} THEN 0 ELSE falta[t]]
  /\ UNCHANGED <<api, numero, quarentena, saiu, tinhamVaga, sinais>>
  /\ UNCHANGED saude

\* The supervisor starts the process again.
Subir(w) ==
  /\ proc[w] = "fora"
  /\ proc' = [proc EXCEPT ![w] = "ouvindo"]
  /\ UNCHANGED <<api, naLib, tinhamVaga, falta, sinais>>
  /\ UNCHANGED chamadas /\ UNCHANGED saude

\* The host stops scheduling it, and resumes.
Congelar(w) ==
  /\ proc[w] = "ouvindo"
  /\ sinais < MaxSinais
  /\ sinais' = sinais + 1
  /\ proc'   = [proc EXCEPT ![w] = "mudo"]
  /\ Parou(w)
  /\ mudos'  = IF sonda # 0 THEN mudos \union {w} ELSE mudos
  /\ UNCHANGED <<api, naLib, tinhamVaga, falta, sonda, pronto, sondas>>
  /\ UNCHANGED chamadas

Descongelar(w) ==
  /\ proc[w] = "mudo"
  /\ proc' = [proc EXCEPT ![w] = "ouvindo"]
  /\ UNCHANGED <<api, naLib, tinhamVaga, falta, sinais>>
  /\ UNCHANGED chamadas /\ UNCHANGED saude

-----------------------------------------------------------------------------
(* The API process.                                                        *)

EmCurso == {p \in Pedidos : pedido[p] \in {"fila", "chamada"}}

SinalNaApi ==
  /\ api = "servindo"
  /\ api' = "drenando"
  /\ tinhamVaga' = {p \in Pedidos : pedido[p] = "chamada" /\ numero[p] = 1}
  /\ Marcar(Api, PrazoDeEncerramento)
  /\ UNCHANGED <<proc, naLib, sinais>>
  /\ UNCHANGED chamadas /\ UNCHANGED saude

\* Shutdown waits for the probe too: it is a request like the others.
ApiVazia ==
  /\ api = "drenando"
  /\ EmCurso = {} /\ sonda = 0
  /\ api' = "fora"
  /\ Desmarcar(Api)
  /\ UNCHANGED <<proc, naLib, tinhamVaga, sinais>>
  /\ UNCHANGED chamadas /\ UNCHANGED saude

\* main returns, whatever is still in progress.
ApiPrazo ==
  /\ api = "drenando"
  /\ Vencido(Api)
  /\ api'    = "fora"
  /\ pedido' = [p \in Pedidos |-> IF p \in EmCurso THEN "cortado" ELSE pedido[p]]
  /\ vaga'   = [p \in Pedidos |-> Nenhum]
  /\ sonda'  = 0 /\ firmes' = {} /\ mudos' = {}
  /\ falta'  = [t \in Relogios |-> IF t \in Workers THEN falta[t] ELSE 0]
  /\ UNCHANGED <<numero, livres, quarentena, proc, naLib, saiu, pronto,
                 tinhamVaga, sinais, sondas>>

-----------------------------------------------------------------------------
(* GET /readyz.                                                            *)

Sondar ==
  /\ api = "servindo"
  /\ sonda = 0 /\ sondas < MaxSondas
  /\ sondas' = sondas + 1
  /\ sonda'  = 1
  /\ pronto' = "nada"
  /\ firmes' = {w \in Workers : proc[w] = "ouvindo"}
  /\ mudos'  = {w \in Workers : proc[w] = "mudo"}
  /\ Marcar(Sonda, PrazoDaSonda)
  /\ UNCHANGED <<api, proc, naLib, tinhamVaga, sinais>>
  /\ UNCHANGED chamadas

Concluir(resposta) ==
  /\ sonda'  = 0
  /\ pronto' = resposta
  /\ firmes' = {} /\ mudos' = {}
  /\ Desmarcar(Sonda)
  /\ UNCHANGED sondas
  /\ UNCHANGED <<api, proc, naLib, tinhamVaga, sinais>>
  /\ UNCHANGED chamadas

\* Mutation: the probe competes for the slot of the worker.
Atende_ErroDisputaAVaga(w) == proc[w] = "ouvindo" /\ w \in livres

\* GET /healthz goes past the slots.
Atende(w) == proc[w] = "ouvindo"

SondaAtendida ==
  /\ sonda # 0
  /\ Atende(Destinos[sonda])
  /\ Concluir("ok")

Restam == sonda < Len(Destinos)

\* A socket that is closed, or a busy one the probe is not let in to.
SondaRecusada ==
  /\ sonda # 0
  /\ proc[Destinos[sonda]] # "mudo"
  /\ ~ Atende(Destinos[sonda])
  /\ \/ /\ Restam
        /\ sonda' = sonda + 1
        /\ UNCHANGED <<pronto, falta, firmes, mudos, sondas>>
        /\ UNCHANGED <<api, proc, naLib, tinhamVaga, sinais>>
        /\ UNCHANGED chamadas
     \/ ~ Restam /\ Concluir("indisponivel")

\* Mutation: asking has no deadline of its own.
SondaPrazo_ErroSemPrazo == FALSE /\ UNCHANGED vars

\* The deadline is one for all the workers: those not asked yet fail at once.
SondaPrazo ==
  /\ Vencido(Sonda)
  /\ Concluir("indisponivel")

-----------------------------------------------------------------------------
Next ==
  \/ Tick
  \/ \E p \in Pedidos :
       \/ Chegar(p) \/ PrazoDaFila(p) \/ PrazoDaChamada(p)
       \/ \E w \in Workers : PegarVaga(p, w) \/ DialFalha(p, w) \/ Sair(w, p)
       \/ \E w \in Workers, n \in 1..3 : Retornar(w, p, n)
  \/ \E w \in Workers :
       \/ FimDaQuarentena(w) \/ SinalNoWorker(w) \/ WorkerVazio(w)
       \/ WorkerPrazo(w) \/ Subir(w) \/ Congelar(w) \/ Descongelar(w)
  \/ SinalNaApi \/ ApiVazia \/ ApiPrazo
  \/ Sondar \/ SondaAtendida \/ SondaRecusada \/ SondaPrazo

\* What a timer that is due does, or Shutdown as it notices that nothing is left.
Disparo ==
  \/ \E p \in Pedidos : PrazoDaFila(p) \/ PrazoDaChamada(p)
  \/ \E w \in Workers : WorkerVazio(w) \/ WorkerPrazo(w)
  \/ ApiVazia \/ ApiPrazo
  \/ SondaAtendida \/ SondaRecusada \/ SondaPrazo

\* Time passes and, as long as one is due, timers fire, in whatever order.
\* Nothing is asked of the library, of the supervisor or of a frozen process.
Fairness == WF_vars(Tick) /\ WF_vars(Disparo)

Spec     == Init /\ [][Next]_vars
FairSpec == Spec /\ Fairness

-----------------------------------------------------------------------------
\* The longest each timer runs.
PrazoDe(t) ==
  IF t \in Pedidos THEN Teto
  ELSE IF t = Sonda THEN PrazoDaSonda ELSE PrazoDeEncerramento

TypeOK ==
  /\ api \in {"servindo", "drenando", "fora"}
  /\ pedido \in [Pedidos -> {"novo", "fila", "chamada", "respondido", "cortado"}]
  /\ numero \in [Pedidos -> 1..3]
  /\ vaga \in [Pedidos -> Workers \union {Nenhum}]
  /\ \A p \in Pedidos : pedido[p] = "chamada" <=> vaga[p] # Nenhum
  /\ livres \subseteq Workers
  /\ quarentena \subseteq Workers \ livres
  /\ proc \in [Workers -> {"ouvindo", "mudo", "drenando", "fora"}]
  /\ naLib \subseteq Workers \X Pedidos \X (1..3)
  /\ saiu \subseteq Transmissoras
  /\ sonda \in 0..Len(Destinos)
  /\ pronto \in {"nada", "ok", "indisponivel"}
  /\ firmes \subseteq Workers
  /\ mudos \subseteq Workers
  /\ tinhamVaga \subseteq Pedidos
  /\ falta \in [Relogios -> Int]
  /\ \A t \in Relogios : falta[t] \in (-Atraso)..PrazoDe(t)
  /\ sinais \in 0..MaxSinais
  /\ sondas \in 0..MaxSondas

\* The API never ends with the document of a call outside and its client
\* without an answer, if that call had its slot when the signal came: the wait
\* covers the whole of a call (config.go, PrazoDeEncerramento).  A request that
\* was still queueing has no such promise.
SemLimboDeQuemTinhaVaga ==
  \A p \in tinhamVaga : pedido[p] = "cortado" => p \notin saiu

\* A worker that ends does so with no caller of its own left waiting: either
\* its calls are over or their deadline came first (fiscal-worker/main.go).
WorkerNaoCortaQuemEspera ==
  [][\A w \in Workers :
       proc[w] = "drenando" /\ proc'[w] = "fora" => Cortados(w) = {}]_vars

\* "indisponivel" is answered only when no worker was listening all along, save
\* one that comes after a frozen one: a pool that is busy is ready (remoto.go,
\* saudavel).  "Pergunta a todos" (remoto.go:119) says more than the code does,
\* which has one deadline for all workers and never asks those that come after it.
IndisponivelComMotivo ==
  [][(sonda # 0 /\ sonda' = 0 /\ pronto' = "indisponivel") =>
       \A i \in 1..Len(Destinos) :
         Destinos[i] \in firmes => \E j \in 1..(i - 1) : Destinos[j] \in mudos]_vars

\* A worker ends after its signal even with calls that never come back from the
\* library (fiscal-worker/main.go, shutdownCtx).
WorkerTermina == \A w \in Workers : (proc[w] = "drenando") ~> (proc[w] # "drenando")

\* A probe is answered even when a worker takes its connection and never
\* resumes (remoto.go, the timeout of saudavel).
SondaTermina == (sonda # 0) ~> (sonda = 0)

=============================================================================
