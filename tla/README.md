# Verification of wrapper-api in TLA+

`wrapper-api` is a stateless HTTP service that issues Brazilian fiscal documents
(CT-e, MDF-e, NFS-e, boletos) through the native library ACBrLib. Nothing is
persisted, so the only account of what happened to a document is the answer the
client is given; most of what can go wrong is an answer that is not true. This
directory models the program in TLA+, checks small instances with TLC and proves
the central theorems for all sizes with TLAPS.

## 1. Inventory

    client --HTTP--> api (no cgo) --JSON RPC, one connection per call--> fiscal-worker (cgo) --> SEFAZ / city / bank

| component | state it keeps | operations | what makes it correct | modelled |
|---|---|---|---|---|
| worker pool, `internal/acbr/remoto.go`, `rpc.go` | `livres` (channel of free slots), quarantined slots, one deadline and one queue timer per call | `chamar`, `erroDeTransporte`, `erroDaResposta`, `saudavel` | the outcome it reports is true and stays true; no slot lost or duplicated; every call answered | `Despacho`; clocks and `saudavel` in `Processos` |
| RPC server, `internal/acbr/rpcserver.go` | `vagas`, counter of calls, `reciclar` | `POST /rpc`, `GET /healthz` | native concurrency bounded whatever callers do; recycle once | `Despacho`; `/healthz` in `Processos` |
| worker process, `cmd/fiscal-worker/main.go` | listener, process life | boot, recycle, drain, exit, crash, restart | what a stop loses is classified correctly by the caller | `Despacho`; the clock of the shutdown in `Processos` |
| API error contract, `internal/fiscal/fiscal.go`, `internal/acbr/acbr.go` | none | `CodigoDoErroDaLib`, `ResponderErroDaLib` | 503 and 422 mean "nothing left", 502 `desfecho_indeterminado` means "ask before repeating" | `Promessa`, implemented by `Despacho`; `Montar`, `AmbienteDoXML` in `Documento` |
| rate limiter, `internal/servidor/limite.go` | map address -> bucket, clock | `permitir`, `abrirEspaco` | the rate in every interval, Retry-After kept, bounded memory | `Limitador` |
| native sessions, `internal/acbr/acbr_cgo*.go` | a library handle, a directory and a locked thread per call | `run`, `withSession`, one function per method | every session finalised on every path, transmission at most once per call | only the result of a call, in `Despacho` |
| API process, `cmd/api/main.go` | HTTP server life | boot, shutdown | a transmission in progress is not cut | `Processos`, from the signal on |
| HTTP server, `internal/servidor/servidor.go` | none | readiness, auth, routing | a busy pool is ready; a probe is always answered | readiness in `Processos` |
| configuration, `internal/platform/config/config.go` | none after boot | `Load`, `PrazoDeEncerramento` | shutdown deadline covers a call | the deadline in `Processos`; parsing is not modelled |
| CT-e, MDF-e, `internal/cte`, `internal/mdfe` | none | generate, transmit, events, queries, PDF | a document is not validated by omission; its outcome is mapped faithfully | `Documento` (generation, transmission, cancellation) |
| NFS-e, `internal/nfse` | none | the same, with a route per document | generation, transmission, query and event find the same system; recovery query finds what was transmitted | `Rota`, `Documento` |
| boletos, `internal/boleto` | none | PDF, remittance, return file, register | one call each: what holds of a single call | no |
| tables, INI writers, text helpers, OpenAPI generator, docs | none | formatting | - | no: layout and constants |

How they interact. Handlers are plain request/response code without shared state;
the state that outlives a request is the pool's channel, the limiter's map and
what the worker process holds. A handler makes one or more synchronous calls to
the pool. The two ends of a call share only one connection, so a caller that
gives up leaves its request behind in the worker, where it may wait for a place,
run, and even transmit. The recycle channel makes the worker stop itself; the
container supervisor (`docker-compose.yml`, `restart: unless-stopped`) starts it
again. The API tells a client only the code of each call, so the requests that
follow one document (generate, transmit, consult, cancel) share nothing but what
the client carries from one to the next, and each chooses the system and the
environment again from that.

The hard behaviours: abandoned requests; a worker that dies at any point of a
call; recycling and shutdown with requests in the backlog; queue and call timers
racing with answers; quarantine of slots; a library that hangs; requests that
overtake each other between the clock and the mutex of the limiter; deadlines of
two processes, started at different moments, that have to nest; one document whose
requests choose between two systems by different data; handlers of two calls of which
one fails; a search that goes on after a failure. `hazards` in
`PROJECT.json` lists each with its line and the property that covers it.

## 2. Plan

Done, in this order, each relying on the ones before it:

1. `Promessa` and `Despacho`: what a call promises, and the pool and workers
   that keep it.
2. `Limitador`: the rate limiter.
3. `Rota` and `Documento`: the requests that follow one document, on top of the
   contract of a call instead of the pool itself.
4. `Processos`: clocks, shutdown and readiness.

Still to come:

1. `Endereco`: the choice of the client's address by the limiter
   (limite.go:157-226) as a pure function against a reference definition.
2. `SessaoNativa`: the life of a library session on all paths.
3. In `Documento`: the replacement as a request, the other events of CT-e and MDF-e,
   the boleto as one more document without a route.
4. Theorems: for each of these, the invariants its run checks.

Every invariant and action property of a passing run is a theorem by now; what is left to
TLC alone is in section 6.

## 3. Modules

### Despacho

One instance of `Chamadas` is one `poolWorkers.chamar`. `fase` is the caller's
place in that function: `nova`, `fila` (the select at remoto.go:164), `comVaga`
(before and during the dial), `enviada` (the request is written), `lendo` (headers
are here, the body is being decoded), `fim`. `serv` is the place of its request in
the worker: `conexao` (in the backlog or being decoded), `aceita` (the select on
`vagas`), `nativa` (in the library, nothing sent), `transmitiu` (in the library,
the document is out), `respondendo` (the handler writes; it still holds its place in `vagas`),
`respondida`, or `caiu` when the process or the listener took it along.

| code | actions |
|---|---|
| remoto.go:158-179 queue | `Chamar`, `PegarVaga`, `FilaEsgota` |
| remoto.go:181-199 dial and request | `Enviar`, `DialFalha`, `ConexaoCai`, `PrazoDaChamada`, `CabecalhoChega` |
| remoto.go:202-213 response | `LerResposta`, `LeituraFalha` |
| remoto.go:166-176 slot | part of every one of those that returns, and `QuarentenaAcaba` |
| rpcserver.go:48-75 handler | `Aceitar`, `PedidoTruncado`, `Despachar`, `DesistirDaVaga`, `Transmitir`, `Retornar`, `Concluir` |
| rpcserver.go:32-42 `contar` | `Contadas`, `Fechados`, inside `Despachar` |
| fiscal-worker/main.go | `Drenar`, `Sair`, `Morrer`, `Reiniciar` |

The deferred return of the slot is part of the action that returns from `chamar`,
as in the code; only the quarantine goroutine is an action of its own.

Abstractions, each of which allows more than the code does or leaves out what no
property distinguishes: timers may fire in any state in which the code waits
under them; `livres` hands slots out in any order; the release of a place in
`vagas` and the end of the response body are one step (`Concluir`), although
headers reach the caller before; errors of `json.Marshal` and
`http.NewRequest` and a response decoded with a status other than 200 and no
error text (a protocol mismatch) are left out, as is a Go panic inside the handler.
A document is just a call that transmits or does not.

### Promessa

What a client is promised, without workers: a call is pending or has one code of
`CodigoDoErroDaLib`; an operation leaves the host at most once, only while its
client waits or has been told `desfecho_indeterminado`. `Despacho!Contrato` maps
`Codigo(c)` to it; `CumprePromessa` is the refinement.

### Limitador

`pedido` holds the requests that have read the clock (limite.go:66) and not yet
taken the mutex (68); `Passar`, `Recusar`, `Admitir` and `SemEspaco` are the four
outcomes of the critical section, with the clean-up of `abrirEspaco` inside
`Admitir`. Balances are counted in parts of a token so that one tick refills one
part, in place of the code's floating point. `desde`, `consumido` and
`prometido` belong to an observer: it may begin an interval at any time, counts
what readings in it spend, and remembers the first Retry-After. The code reads
none of them. The log line of `avisarCheio` is left out, and so is the limit of 0,
with which the code has no limiter.

### Rota

The rules of `internal/nfse/rota.go` and `vigencia.go` as operators, one for each
function, over constants for the tables. A date is its day; what else its text may
hold is its form, because `NaoAntes` compares texts: a date written `DD/MM/AAAA` is
compared by its first two digits (`DiaDoMes`), and an instant by the day written although
the document gets the day in its own time zone. A regime of 0 is a field that the request
leaves out, or a document without the tag: the generation looks the table up with it, while
`ToINI` writes 1 into the document in its place (ini.go:65, `RegimeEscrito`). A request
without the whole group `regTrib`, whose document gets no value from the API at all, is the
same 0 in the generation and becomes no document of the national layout, whose schema
requires the group (model.go:117, ini.go:67).
`RotaAssumption` says of the tables
what their tests keep. There is no state, so the module has no run of its own: every
operator is in use in `Documento`, the rule for replacements excepted as far as
its kind is not a request there.

### Documento

One document, and up to four requests about it, whose calls interleave. `etapa` is the
call a request waits for; `registro` is what each system has of the document in each
environment; `prometido` is the provider the answer of `/xml` named. The calls rest
on `Promessa`, instantiated with all calls as transmitting ones
(`P == INSTANCE Promessa WITH Transmissoras <- Chamadas`): `Chegar` is the step in which a
call reaches its system and is `P!Transmitir`, `Voltar` is the step in which it is answered
and is `P!Responder`. The day of a document that leaves its competence out is that of the
INI, written before the first call (`Requisicao`). So everything that the pool may do to a call, including a
transmission after `desfecho_indeterminado`, may happen here, and only that.

| code | definitions |
|---|---|
| handlers of internal/nfse/http.go, internal/cte/http.go | `Comecar`, then `Voltar` once per call |
| fiscal.go `Montar`, `validarRegras` | `SeguirXML`, `Defeito`, `SemValidacao` |
| fiscal.go `AmbienteDoXML` | `AmbienteDe` |
| rota.go | `RotaDe`, over `Rota` |
| nfse/http.go `handleConsultaDPS`, `handleDistribuicao` | `PassaAdiante`, `EncerraABusca`, `PassaParaOADN` |
| nfse/http.go `naoSuportada`, `capacidades` | `OperacaoNaoSuportada`, `RespostaDaRecusa`, call 3 |
| nfse/resposta.go, cancelamento.go, evento.go, fiscal/resposta.go | `StatusDe`, by kind: `StatusDaEmissao`, `StatusDoCancelamento`, `StatusDaConsulta`; `Autoriza` |
| the systems (external) | `Chegar`, `ProcessarLote`, `Registrar`, `Devolve` |

CT-e and MDF-e are the same actions for the emissor `Sefaz`, which has no route to
choose and whose generation validates its rules; that of the NFS-e checks its layout.
A response of the library that the code cannot read, or reads as empty, is `vazia`: that of a
transmission is an error, that of an event by the national layout its conclusion, and that of a
query of the NFS-e goes to the client as it is. The client is
free: any request at any moment, as often as requests are left.

### Processos

The processes and their clocks, where `Despacho` has only their order. `falta` is
what is left of every timer that runs, and `Tick` moves all of them at once. A timer
that is due may fire up to `Atraso` ticks late, after which time waits for it: that
stands for scheduling, an answer on its way and the polling of `Shutdown`. `PrazoDe` is
the deadline each timer starts from, which `TypeOK` bounds it by: a probe may last longer
than a shutdown, as nothing in the code relates the two.

| code | actions |
|---|---|
| remoto.go:158-199 the two timers of `chamar` | `PegarVaga`, `DialFalha`, `PrazoDaFila`, `PrazoDaChamada`, `FimDaQuarentena` |
| remoto.go:119-150 `saudavel`, servidor.go `handleReadyz` | `Sondar`, `SondaAtendida`, `SondaRecusada`, `SondaPrazo` |
| cmd/api/main.go, from the signal | `SinalNaApi`, `ApiVazia`, `ApiPrazo` |
| cmd/fiscal-worker/main.go, from the signal | `SinalNoWorker`, `WorkerVazio`, `WorkerPrazo`, `Subir` |
| the host | `Congelar`, `Descongelar` |
| config.go `PrazoDeEncerramento` | the operator of that name |
| the handlers, as far as they make another call | `Ultima`, `OutraChamada`, `AposFalha`, `AposResposta` |

A request of `Duplos` that transmits makes two calls (the second asks what the class offers); one
that does not makes up to three (two systems, then that question).

`tinhamVaga`, `firmes` and `mudos` belong to observers and guard nothing: the requests in
their first call when the API is told to stop, the workers that listened all along
a probe, and those frozen at some moment of it.

## 4. What the runs check

Definitions named `X_Erro...` are mutations of the definition after them; each
property of a passing run fails with one of them in place.

| run | instance | shows |
|---|---|---|
| `contrato` | 3 calls (2 transmit), 2 workers, one of them built without the library, 1 slot each, recycle after 2 calls, 1 stop | the code a client is told is true and final |
| `capacidade` | 3 transmitting calls, 1 worker with 2 slots, 2 stops | slots, native concurrency, blast radius of a crash |
| `vivacidade` | 2 calls, 1 worker, 1 slot, recycle after 2, 1 stop | answers and slots always come back |
| `limite` | 3 addresses, map of 2, 2 goroutines, bucket of 2 tokens of 2 parts, 3 ticks | the rate, the promised Retry-After, what the map holds and forgets |
| `notas` | 3 requests (generation, transmission, cancellation, distribution), Brasilia (two systems, a line of regime 3), Goiania (one system, lots, no cancellation, a line of regime 1), a CT-e; regimes 3, 1 and left out; both environments; 2 days with the first day of the rules between them | a document has one place, and every request finds it |
| `recuperacao` | 4 requests (generation, transmission, query of lot and of DPS) in Brasilia, one environment, one day | an answer never hides a document that exists |
| `processos` | 2 requests (one transmits, one makes up to three calls), 2 workers, call of 1 tick, margin 2, delay 1, 1 signal or freeze, 1 probe | shutdown cuts nobody short that was promised, and readiness is true |
| `ilegivel`, `travada`, `esquecer`, `formato`, `omissao` | as small as the violation allows | the findings of section 7 |

Why the bounds are enough. Calls interact through slots, the places in `vagas` and
the counter: with three calls on one slot (or two) there is always one waiting in
the pool, one abandoned in the worker and one running. Two workers are needed to
see a slot of one go free while the other is down. `MaxParadas` bounds crashes,
signals and expired drains only; recycling is not bounded, and one stop per run
already falls at every point of every call. `MaxCalls = 2` with three calls makes
calls arrive beyond the recycle limit. In the runs of the limiter
a bucket is full again two ticks after its first token, so it is forgotten and comes
back within three. Two goroutines are enough for one reading of the clock to overtake
another, and two places for the clean-up to forget one bucket and keep another: the
mutations that refill only forwards, without a limit, or forget a bucket one token early
all fail here. All five properties of `limite` are theorems, which remove these bounds. Transmitting calls, addresses and goroutines
are interchangeable, which the safety runs use as symmetry; the liveness run uses
none.

In `notas` three requests are a generation and two more, which is what the
properties relate: two transmissions, on two days or in two environments, or a
transmission and a cancellation of what it left; its queries belong to `recuperacao`. The line
of regime 1 is for a city of another layout, whose documents have no tag to read back;
in one of the national layout it parts generation and transmission (finding `omissao`).
`recuperacao` has a fourth because a search
in two systems has to meet a lot in progress, or a second transmission. The calendar
of two days has the rule's first day as the second, so that generation and
transmission may fall on two sides of it. In `processos` the margin exceeds the delay
by one tick and the call is as long as the probe, so every order of two timers
occurs; a second worker is what the probe goes on to and what a call may have
instead of the one that is draining.

Deadlock is checked in every run but `processos`: `Repouso` is the only state of
`Despacho` that may stop, with every call answered, all slots free, no request left
behind and every worker listening, and `Fim` that of `Documento`, with every request
answered. In `processos` the API really ends, and the timers that make anything
happen end with it.

## 5. Fairness

`JusticaDoCliente` is what the Go code guarantees by itself: a caller in `chamar`
always has a running timer (queue timer or context deadline) and its deferred
functions run, and the quarantine goroutine wakes up. Nothing is assumed of the
worker, the library or the network, so `vivacidade` holds with a library that
hangs forever. `JusticaDoWorker`, used only by `travada`, adds the scheduler of the
worker (accept, select, finish), the exit after a drain, the restart by the
supervisor and the recycling that was already decided; it does not make native calls
return or processes crash.

`Fairness` of `Processos` lets time pass (`Tick`) and, as long as something is due, lets
something happen that is (`Disparo`): a timer fires, `Shutdown` notices that nothing is
left, a listening worker answers a probe. Which of them is left open, and no single timer is
favoured: they fire in any order, and time waits for those that are late. Nothing is
asked of the library, of the supervisor or of a frozen process, so `WorkerTermina`
holds with native calls that hang and `SondaTermina` with a worker that never resumes.
`Documento` states no fairness: its client and its systems owe nothing.

## 6. What is proved

With TLAPS, for any number of calls, workers, slots, addresses and goroutines, from
`DespachoAssumption` and `LimitadorAssumption` only (types of the constants;
a bucket holds at least one token); for any tables, calendar, requests and kinds from
`RotaAssumption` and `DocumentoAssumption`; for any deadlines, margin and delay from
`ProcessosAssumption`, which asks that the margin exceed the delay.

`Despacho_proofs`. `IndisponivelNaoTransmite` is not inductive: whether an
abandoned request transmits after the answer depends on where it was when the
answer was given. `Acordo` says that for each pair of phases of caller and
request: before the request is written there is none; a caller that reads a body
has a request that is past the library; a call that transmits and ended in
anything but `indeterminado` has no request that can still transmit; answers
"unavailable" and "unsupported" come only from requests that did not transmit.
`IInv == TypeOK /\ Acordo` is inductive (`InitIInv`, one lemma per group of
actions, `NextIInv`), and `TypeOK`, `IndisponivelNaoTransmite`, `SemReenvio`,
`SoIndeterminadoMudaDepois` and the refinement `CumprePromessa` follow from it.

`Despacho_vagas_proofs`. `VagasNoLugar` restates "each slot is in exactly one place" in
a form that is kept step by step; with it the callers connected to a worker are
mapped injectively to its slots (`RaioDaQueda`), and `NativasContadas` carries
finiteness along for `ConcorrenciaNativa`, since `Chamadas` may be infinite.

`Limitador_proofs`. A bucket `(fichas, visto)` stands for the difference
`visto - fichas`: a reading that lies behind the bucket's moves both by the same
amount. `LInv` bounds what an observer counted by that difference, hence the rate
holds although requests overtake each other; the same difference bounds the
promised time and what is forgiven when a bucket is forgotten.

`Despacho_proofs` also proves `ReciclarFechaUmaVez`: `Fechados` of a process is 1 exactly
from the call at which the counter reaches the limit.

`Documento_proofs`. Two lemmas about `Rota` carry the rest: the route worked out of the
key of a note is that of its issue (`DaNotaAchaONotaDaEmissao`), and, for
competences written `AAAA-MM-DD` and regimes that are given or have no line for their
default, that of the finished document leads to the system of
the generation (`DaDPSProntaSegueAEmissao`). A third, `OmissaoDesviaODocumento`, shows that the condition on the
regime is needed: with such a line the document leaves by the other system. The invariant `IInv` says that a document
no longer changes once it left, because what generates it runs only while there is
none, and that a system which has it is the one of its route, in the environment of
its tag. The theorem about generation and transmission has `EscritaISO` as an
assumption, that every competence is written `AAAA-MM-DD`, and `RegimeDito`, that the regime is
never left out or no line of a municipality of the national layout is for the 1 that is
written in its place, as in the table of today; without the
one or the other the property is false (findings `formato` and `omissao`).

`Processos_proofs`. A timer started at a later moment may not fire before an
earlier one it must cover; since `Tick` moves all of them at once, it suffices to
compare what is left of each. `Prazos` does so: the shutdown of a worker has at least `Margem` more left than any
call that it may still cut; likewise that of the API and the requests in
`tinhamVaga`. As `Margem` exceeds `Atraso`, the call is over before time can bring the
shutdown to its end. `Pares` pairs a caller with the call its worker has, and keeps a document that
is out from belonging to a second call; `Esperados` says what became of the requests that
had their slot at the signal.
`Sondagem` says that a worker the probe has passed over was not listening all along, and
that its timer ran only while it was held up by a frozen one. Actions that touch none of these are grouped in lemmas on
steps that leave them alone.

`Documento_respostas_proofs`. Whether an answer agrees with the systems is never
inductive alone: the answer is one moment, and the systems go on. `Base` is what all of
the proofs start from: the invariant of `Documento_proofs`, the accounts of `Promessa`
and `TypeOK`. On it rest

* `RegistroAvanca`, `NotasFicam`: a note goes on being one, a cancelled one included, and
  a system forgets no document it took in; so what was true of an answer once stays true;
* `NotaDita`, for `AutorizadoSoSeExiste`: already the answer of the library to one
  call, before the handler reads it, may say "authorised" or "found" only if there is a note;
* `Avisada`, for `NotaSemAvisoNaoExiste`: relates a document to the call that brought it.
  A transmission has one call (`UmaChamada`), so its client is told of that call and
  of nothing else; a system that has the document received it from a request that
  `Levou` it, whose answer the library may lose (`vazia`) but not turn into a refusal;
* `BuscaCerta`, for `AusenteSoSeNaoExiste`: the note that was there as the search began
  is at the system of the route of the document, which is one of those the search asks
  (`AConsultaPassaPelaRotaDaEmissao`, the third lemma about `Rota`), and that system does not answer "absent" of it;
* `UmaFila`, for `CursorNaoTrocaDeFila`: the ADN is asked only after the class of the
  municipality said that it has no distribution, which it says always or never.

`Processos_vagas_proofs`. `Vagas` says that no slot is in two places, here with
quarantine and with requests that hold one slot after another. `NoPrazo` bounds each
clock by its own `PrazoDe` and the delay, and `Restante` types the calls in the library, the
observers of the probe and the counters; with `Sondagem` the four give `TypeOK`.

No theorem assumes more than the assumptions on the constants, except that the one about
generation and transmission also has `EscritaISO` and `RegimeDito`, named in its statement.

Only model-checked: the liveness properties `TodaChamadaResponde`, `TodaVagaVolta`,
`WorkerTermina` and `SondaTermina`, since proofs under fairness are out of the provers'
reach, and the five expected violations of section 7. No definition here is recursive.

## 7. Findings

* `ilegivel` - a response that breaks off after the headers of a call that
  transmits is `falha_na_lib`, not `desfecho_indeterminado` (remoto.go:204), although the
  operation may be done. The contract of `Promessa` is weak enough here
  (`falha_na_lib` promises nothing about transmission) to be implemented all the same.
* `travada` - the call deadline does not free the worker's place of a native call
  that hangs (config.go:63-64): the worker is lost until somebody restarts it, and
  its `/healthz` goes on answering.
* `esquecer` - forgetting a full bucket is not the same as keeping it for a
  request that read the clock earlier (limite.go:95-96); the gain is the time spent
  waiting for the mutex.
* `formato` - generation routes by the competence as the client wrote it, transmission by
  the tag of the finished document, which is always normalised (vigencia.go:50). A
  competence in another accepted form (an instant around midnight, `DD/MM/AAAA`, or none)
  may therefore leave by another provider than the `provedor` in the answer of `/xml`,
  which, docs/LIMITACOES.md:133-135 says, tells by where the note is going to leave.
* `omissao` - a regime left out is 0 in the generation (rota.go:178) and 1 in the document
  (ini.go:65), which the transmission reads (rota.go:73). The table of today has only a line
  of regime 3, so no note goes astray at this commit. A line of regime 1 for a city of
  the national layout, which vigencia_test.go:22 admits and :39 says is all it takes, would send
  the notes of these issuers by another way than the `provedor` of `/xml`.

One divergence has no run of its own: the comment of `saudavel` says "Pergunta a todos"
(remoto.go:119), but its 3 s are one deadline for all workers, so those after a frozen one
are not asked in time and `/readyz` may refuse although one of them listens.
`IndisponivelComMotivo` states what the code keeps, with that exception in its text, and
`EspecIndisponivelComMotivo` proves that there is no other.

## 8. Not modelled, and limits of what is

Marshalling, INI and XML text, PDF rendering, logging, authentication, CORS of the
documentation and the generators are sequential code without state, covered by the
repository's golden and unit tests. A boleto handler makes one call and passes its
result on. SEFAZ, cities and banks appear only as `registro` in `Documento` and as the counter
`transmitidas` in `Promessa`. The parts left in section 2 are not modelled yet;
`components` in `PROJECT.json` gives the status of each.

Limits of `Documento`: one document is followed, and generated again only
until a generation delivers it; each request is sent once (a repetition is another
request); a distribution always names its municipality; of the answers of a CT-e query
"not found" is `ausente`, like that of a DPS. The DANFSE, cancellations by number
alone and the replacement are not requests of it, although `Rota` has the rule
of the replacement.

Limits of `Processos`: `Atraso` below `Margem`, and one value of
`ACBR_WORKER_TIMEOUT_SECONDS`, above zero, in all processes (with zero or less the pool uses 120 s
and the shutdown the raw value); a listening worker answers `/healthz` at once; the
grace period of the container is not modelled. A request that queues when
the API is told to stop, or is in its second call, has no promise: its document may go
out and its client be cut off, as the comment of `PrazoDeEncerramento` concedes by
covering one call.
