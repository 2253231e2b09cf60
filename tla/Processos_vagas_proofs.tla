------------------------ MODULE Processos_vagas_proofs ------------------------
(***************************************************************************)
(* Theorems about the places Processos hands out and the timers it runs,   *)
(* for any number of requests and workers and any deadlines with           *)
(* Atraso < Margem.                                                        *)
(*                                                                         *)
(* That the type of the variables is kept is not a matter of types alone:  *)
(* that a slot put back is not there already needs to know who holds it.   *)
(***************************************************************************)
EXTENDS Processos_proofs

USE Numeros, ProcessosAssumption DEF ProcessosAssumption

-----------------------------------------------------------------------------
(* The slots.                                                              *)

\* A slot is in the channel, in quarantine or in the hand of one caller, whose
\* call is in progress.
Vagas ==
  /\ quarentena \intersect livres = {}
  /\ \A p \in Pedidos : pedido[p] = "chamada" <=> vaga[p] # Nenhum
  /\ \A p \in Pedidos : vaga[p] \notin livres \union quarentena
  /\ \A p, q \in Pedidos : vaga[p] = vaga[q] /\ vaga[p] # Nenhum => p = q

\* One request changes place, and the slots with it.
Troca(p, lugar, v) ==
  /\ pedido' = [pedido EXCEPT ![p] = lugar]
  /\ vaga'   = [vaga EXCEPT ![p] = v]
  /\ lugar = "chamada" <=> v # Nenhum
  /\ quarentena' \intersect livres' = {}
  /\ v \notin livres' \union quarentena'
  /\ \A q \in Pedidos \ {p} : vaga[q] \notin livres' \union quarentena'
  /\ \A q \in Pedidos \ {p} : v # Nenhum => vaga[q] # v

LEMMA TrocaVagas ==
  ASSUME Tipos, Vagas, NEW p \in Pedidos, NEW lugar, NEW v, Troca(p, lugar, v)
  PROVE  Vagas'
<1>1. \A q \in Pedidos \ {p} : pedido'[q] = pedido[q] /\ vaga'[q] = vaga[q]
  BY DEF Troca, Tipos
<1>2. pedido'[p] = lugar /\ vaga'[p] = v
  BY DEF Troca, Tipos
<1>3. quarentena' \intersect livres' = {}
  BY DEF Troca
<1>4. ASSUME NEW q \in Pedidos
      PROVE  /\ pedido'[q] = "chamada" <=> vaga'[q] # Nenhum
             /\ vaga'[q] \notin livres' \union quarentena'
  BY <1>1, <1>2 DEF Troca, Vagas
<1>5. ASSUME NEW q \in Pedidos, NEW q2 \in Pedidos,
             vaga'[q] = vaga'[q2], vaga'[q] # Nenhum
      PROVE  q = q2
  BY <1>1, <1>2, <1>5 DEF Troca, Vagas
<1> QED
  BY <1>3, <1>4, <1>5 DEF Vagas

\* The handler goes on without a slot: it had none, or it put it back.
LEMMA SegueSemVaga ==
  ASSUME IInv, Vagas, NEW p \in Pedidos, AposFalha(p) \/ AposResposta(p),
         vaga' = [vaga EXCEPT ![p] = Nenhum],
         livres' \subseteq Workers, quarentena' \subseteq Workers,
         quarentena' \intersect livres' = {},
         \A q \in Pedidos \ {p} : vaga[q] \notin livres' \union quarentena'
  PROVE  Vagas'
<1>1. PICK lugar \in {"respondido", "fila"} : pedido' = [pedido EXCEPT ![p] = lugar]
  BY DEF AposFalha, AposResposta, Respondido, OutraChamada
<1>2. Troca(p, lugar, Nenhum)
  BY <1>1 DEF Troca
<1> QED
  BY <1>2, TrocaVagas DEF IInv

LEMMA PedidoVagas ==
  ASSUME IInv, Vagas, NEW p \in Pedidos,
         \/ Chegar(p) \/ PrazoDaFila(p) \/ PrazoDaChamada(p)
         \/ \E w \in Workers : PegarVaga(p, w) \/ DialFalha(p, w) \/ Sair(w, p)
         \/ \E w \in Workers, n \in 1..3 : Retornar(w, p, n)
  PROVE  Vagas'
<1>0. Tipos /\ Nenhum \notin Workers
  BY DEF IInv
<1>1. pedido[p] # "chamada" => vaga = [vaga EXCEPT ![p] = Nenhum]
  BY <1>0 DEF Tipos, Vagas
<1>2. CASE Chegar(p)
  <2>1. pedido[p] # "chamada" /\ UNCHANGED <<vaga, livres, quarentena>>
        /\ pedido' = [pedido EXCEPT ![p] = "fila"]
    BY <1>2 DEF Chegar
  <2>2. Troca(p, "fila", Nenhum)
    BY <1>0, <1>1, <2>1 DEF Troca, Vagas, Tipos
  <2> QED
    BY <1>0, <2>2, TrocaVagas
<1>3. CASE PrazoDaFila(p)
  <2>1. pedido[p] # "chamada" /\ UNCHANGED <<vaga, livres, quarentena>> /\ AposFalha(p)
    BY <1>3 DEF PrazoDaFila
  <2> QED
    BY <1>0, <1>1, <2>1, SegueSemVaga DEF Vagas, Tipos
<1>4. ASSUME NEW w \in Workers, DialFalha(p, w) PROVE Vagas'
  <2>1. pedido[p] # "chamada" /\ vaga' = vaga /\ AposFalha(p) /\ w \in livres
        /\ livres' = livres \ {w} /\ quarentena' = quarentena \union {w}
    BY <1>4 DEF DialFalha
  <2>2. livres' \subseteq Workers /\ quarentena' \subseteq Workers
        /\ quarentena' \intersect livres' = {}
        /\ \A q \in Pedidos \ {p} : vaga[q] \notin livres' \union quarentena'
    BY <1>0, <2>1 DEF Vagas, Tipos
  <2> QED
    BY <1>1, <2>1, <2>2, SegueSemVaga
<1>5. ASSUME NEW w \in Workers, PegarVaga(p, w) PROVE Vagas'
  <2>1. w \in livres /\ livres' = livres \ {w} /\ quarentena' = quarentena
        /\ vaga' = [vaga EXCEPT ![p] = w] /\ pedido' = [pedido EXCEPT ![p] = "chamada"]
    BY <1>5 DEF PegarVaga
  <2>2. Troca(p, "chamada", w)
    BY <1>0, <2>1 DEF Troca, Vagas, Tipos
  <2> QED
    BY <1>0, <2>2, TrocaVagas
<1>6. ASSUME Devolver(p), pedido[p] = "chamada", quarentena' = quarentena,
             AposFalha(p) \/ AposResposta(p)
      PROVE  Vagas'
  <2>1. livres' = livres \union {vaga[p]} /\ vaga' = [vaga EXCEPT ![p] = Nenhum]
    BY <1>6 DEF Devolver
  <2>2. vaga[p] \in Workers /\ vaga[p] \notin quarentena /\ vaga[p] # Nenhum
    BY <1>0, <1>6 DEF Vagas, Tipos
  <2>3. livres' \subseteq Workers /\ quarentena' \subseteq Workers
        /\ quarentena' \intersect livres' = {}
        /\ \A q \in Pedidos \ {p} : vaga[q] \notin livres' \union quarentena'
    BY <1>0, <1>6, <2>1, <2>2 DEF Vagas, Tipos
  <2> QED
    BY <1>6, <2>1, <2>3, SegueSemVaga
<1>7. CASE PrazoDaChamada(p)
  BY <1>6, <1>7 DEF PrazoDaChamada
<1>8. ASSUME NEW w \in Workers, NEW n \in 1..3, Retornar(w, p, n) PROVE Vagas'
  <2>1. CASE pedido[p] = "chamada" /\ vaga[p] = w /\ numero[p] = n
    BY <1>6, <1>8, <2>1 DEF Retornar
  <2>2. CASE ~ (pedido[p] = "chamada" /\ vaga[p] = w /\ numero[p] = n)
    BY <1>8, <2>2 DEF Retornar, Vagas
  <2> QED
    BY <2>1, <2>2
<1>9. ASSUME NEW w \in Workers, Sair(w, p) PROVE Vagas'
  BY <1>9 DEF Sair, Vagas
<1> QED
  BY <1>2, <1>3, <1>4, <1>5, <1>7, <1>8, <1>9

LEMMA WorkerVagas ==
  ASSUME IInv, Vagas, NEW w \in Workers,
         FimDaQuarentena(w) \/ WorkerPrazo(w)
  PROVE  Vagas'
<1>1. CASE FimDaQuarentena(w)
  BY <1>1 DEF FimDaQuarentena, Vagas
<1>2. CASE WorkerPrazo(w)
  <2>1. Cortados(w) = {}
    BY <1>2, NinguemEspera
  <2>2. UNCHANGED <<pedido, vaga, livres, quarentena>>
    BY <1>2, <2>1 DEF WorkerPrazo, IInv, Tipos
  <2> QED
    BY <2>2 DEF Vagas
<1> QED
  BY <1>1, <1>2

LEMMA NextVagas == IInv /\ Vagas /\ [Next]_vars => Vagas'
<1> SUFFICES ASSUME IInv, Vagas, [Next]_vars PROVE Vagas'
  OBVIOUS
<1>1. CASE ApiPrazo
  <2>1. /\ \A p \in Pedidos : pedido'[p] # "chamada" /\ vaga'[p] = Nenhum
        /\ UNCHANGED <<livres, quarentena>>
    BY <1>1 DEF ApiPrazo, EmCurso
  <2>2. Nenhum \notin livres \union quarentena
    BY DEF IInv, Tipos
  <2> QED
    BY <2>1, <2>2 DEF Vagas
<1>2. CASE \/ Tick \/ SinalNaApi \/ ApiVazia
           \/ Sondar \/ SondaAtendida \/ SondaRecusada \/ SondaPrazo
           \/ \E w \in Workers : \/ SinalNoWorker(w) \/ WorkerVazio(w) \/ Subir(w)
                                 \/ Congelar(w) \/ Descongelar(w)
           \/ UNCHANGED vars
  <2>1. UNCHANGED <<pedido, vaga, livres, quarentena>>
    BY <1>2 DEF Tick, SinalNaApi, ApiVazia, Sondar, SondaAtendida, SondaRecusada,
       SondaPrazo, Concluir, SinalNoWorker, WorkerVazio, Subir, Congelar, Descongelar,
       chamadas, vars
  <2> QED
    BY <2>1 DEF Vagas
<1> QED
  BY <1>1, <1>2, PedidoVagas, WorkerVagas DEF Next

\* A slot is never in two places: no two callers have the same worker, and one
\* that is put back was not there (acbr/remoto.go, chamar).
THEOREM EspecVagas == Spec => []Vagas
<1>1. Init => Vagas
  BY DEF Init, Vagas
<1> QED
  BY <1>1, NextVagas, SempreIInv, PTL DEF Spec

-----------------------------------------------------------------------------
(* The timers.                                                             *)

NoPrazo == \A t \in Relogios : falta[t] \in (-Atraso)..PrazoDe(t)

LEMMA PrazoConhecido ==
  /\ \A t : PrazoDe(t) \in Nat
  /\ \A p \in Pedidos : PrazoDe(p) = Teto
  /\ \A w \in Workers : PrazoDe(w) = PrazoDeEncerramento
  /\ PrazoDe(Api) = PrazoDeEncerramento /\ PrazoDe(Sonda) = PrazoDaSonda
<1>1. \A w \in Workers : w \notin Pedidos /\ w # Sonda
  OBVIOUS
<1>2. Api \notin Pedidos /\ Sonda \notin Pedidos /\ Api # Sonda
  OBVIOUS
<1>3. PrazoDeEncerramento \in Nat
  BY DEF PrazoDeEncerramento
<1> QED
  BY <1>1, <1>2, <1>3 DEF PrazoDe

\* A step starts or stops one timer, or stops some.
UmRelogio ==
  \/ UNCHANGED falta
  \/ \E t \in Relogios : \E v \in {0, PrazoDe(t)} : falta' = [falta EXCEPT ![t] = v]
  \/ \A t \in Relogios : falta'[t] \in {0, falta[t]}

LEMMA RelogioNoPrazo ==
  ASSUME Tipos, NoPrazo, UmRelogio
  PROVE  NoPrazo'
<1>1. ASSUME NEW t \in Relogios PROVE falta'[t] \in (-Atraso)..PrazoDe(t)
  <2>1. falta'[t] \in {0, PrazoDe(t), falta[t]}
    BY DEF UmRelogio, Tipos
  <2>2. falta[t] \in (-Atraso)..PrazoDe(t) /\ PrazoDe(t) \in Nat
    BY PrazoConhecido DEF NoPrazo
  <2> QED
    BY <2>1, <2>2
<1> QED
  BY <1>1 DEF NoPrazo, PrazoDe, PrazoDeEncerramento, Relogios

LEMMA TickNoPrazo ==
  ASSUME Tipos, NoPrazo, Tick
  PROVE  NoPrazo'
<1>1. ASSUME NEW t \in Relogios PROVE falta'[t] \in (-Atraso)..PrazoDe(t)
  <2>1. falta[t] \in (-Atraso)..PrazoDe(t) /\ PrazoDe(t) \in Nat
    BY PrazoConhecido DEF NoPrazo
  <2>2. CASE t \in Ligados
    <3>1. falta[t] > -Atraso /\ falta'[t] = falta[t] - 1
      BY <2>2 DEF Tick
    <3> QED
      BY <2>1, <3>1
  <2>3. CASE t \notin Ligados
    <3>1. falta'[t] = 0
      BY <2>3 DEF Tick
    <3> QED
      BY <2>1, <3>1
  <2> QED
    BY <2>2, <2>3
<1> QED
  BY <1>1 DEF NoPrazo, PrazoDe, PrazoDeEncerramento, Relogios

LEMMA PassoDoRelogio ==
  ASSUME Tipos, [Next]_vars, ~ Tick
  PROVE  UmRelogio
<1> USE PrazoConhecido
<1>0. Pedidos \subseteq Relogios /\ Workers \subseteq Relogios
      /\ Api \in Relogios /\ Sonda \in Relogios
  BY DEF Relogios
<1>1. ASSUME NEW p \in Pedidos, Respondido(p) \/ OutraChamada(p) PROVE UmRelogio
  <2>1. \E v \in {0, PrazoDe(p)} : falta' = [falta EXCEPT ![p] = v]
    BY <1>1 DEF Respondido, OutraChamada, Marcar, Desmarcar
  <2> QED
    BY <1>0, <2>1 DEF UmRelogio
<1>2. ASSUME NEW p \in Pedidos,
             \/ Chegar(p) \/ PrazoDaFila(p) \/ PrazoDaChamada(p)
             \/ \E w \in Workers : PegarVaga(p, w) \/ DialFalha(p, w) \/ Sair(w, p)
             \/ \E w \in Workers, n \in 1..3 : Retornar(w, p, n)
      PROVE  UmRelogio
  <2>1. \/ Marcar(p, Teto) \/ UNCHANGED falta
        \/ Respondido(p) \/ OutraChamada(p)
    BY <1>2 DEF Chegar, PrazoDaFila, PrazoDaChamada, PegarVaga, DialFalha, Sair,
       Retornar, AposFalha, AposResposta
  <2>2. ASSUME Marcar(p, Teto) PROVE UmRelogio
    <3>1. falta' = [falta EXCEPT ![p] = PrazoDe(p)]
      BY <2>2 DEF Marcar
    <3> QED
      BY <1>0, <3>1 DEF UmRelogio
  <2>3. UNCHANGED falta => UmRelogio
    BY DEF UmRelogio
  <2> QED
    BY <1>1, <2>1, <2>2, <2>3
<1>3. ASSUME NEW w \in Workers,
             \/ FimDaQuarentena(w) \/ SinalNoWorker(w) \/ WorkerVazio(w)
             \/ WorkerPrazo(w) \/ Subir(w) \/ Congelar(w) \/ Descongelar(w)
      PROVE  UmRelogio
  <2>1. \/ Marcar(w, PrazoDeEncerramento) \/ Desmarcar(w) \/ UNCHANGED falta
        \/ \A t \in Relogios : falta'[t] \in {0, falta[t]}
    BY <1>3 DEF FimDaQuarentena, SinalNoWorker, WorkerVazio, WorkerPrazo, Subir,
       Congelar, Descongelar
  <2>2. Marcar(w, PrazoDeEncerramento) \/ Desmarcar(w) =>
          \E v \in {0, PrazoDe(w)} : falta' = [falta EXCEPT ![w] = v]
    BY DEF Marcar, Desmarcar
  <2> QED
    BY <1>0, <2>1, <2>2 DEF UmRelogio
<1>4. CASE SinalNaApi \/ ApiVazia \/ ApiPrazo
  <2>1. \/ Marcar(Api, PrazoDeEncerramento) \/ Desmarcar(Api)
        \/ \A t \in Relogios : falta'[t] \in {0, falta[t]}
    BY <1>4 DEF SinalNaApi, ApiVazia, ApiPrazo
  <2>2. Marcar(Api, PrazoDeEncerramento) \/ Desmarcar(Api) =>
          \E v \in {0, PrazoDe(Api)} : falta' = [falta EXCEPT ![Api] = v]
    BY DEF Marcar, Desmarcar
  <2> QED
    BY <1>0, <2>1, <2>2 DEF UmRelogio
<1>5. CASE Sondar \/ SondaAtendida \/ SondaRecusada \/ SondaPrazo
  <2>1. Marcar(Sonda, PrazoDaSonda) \/ Desmarcar(Sonda) \/ UNCHANGED falta
    BY <1>5 DEF Sondar, SondaAtendida, SondaRecusada, SondaPrazo, Concluir
  <2>2. Marcar(Sonda, PrazoDaSonda) \/ Desmarcar(Sonda) =>
          \E v \in {0, PrazoDe(Sonda)} : falta' = [falta EXCEPT ![Sonda] = v]
    BY DEF Marcar, Desmarcar
  <2> QED
    BY <1>0, <2>1, <2>2 DEF UmRelogio
<1>6. CASE UNCHANGED vars
  BY <1>6 DEF vars, UmRelogio
<1> QED
  BY <1>2, <1>3, <1>4, <1>5, <1>6 DEF Next

LEMMA NextNoPrazo == Tipos /\ NoPrazo /\ [Next]_vars => NoPrazo'
BY TickNoPrazo, RelogioNoPrazo, PassoDoRelogio

-----------------------------------------------------------------------------
(* The rest.                                                               *)

\* The calls in the library, the probe and the counters of the run.
Restante ==
  /\ naLib \subseteq Workers \X Pedidos \X (1..3)
  /\ pronto \in {"nada", "ok", "indisponivel"}
  /\ firmes \subseteq Workers
  /\ mudos \subseteq Workers
  /\ sinais \in 0..MaxSinais
  /\ sondas \in 0..MaxSondas

LEMMA NextRestante == Tipos /\ Restante /\ [Next]_vars => Restante'
<1> SUFFICES ASSUME Tipos, Restante, [Next]_vars PROVE Restante'
  OBVIOUS
<1>1. naLib' \subseteq Workers \X Pedidos \X (1..3)
  <2>1. \/ naLib' \subseteq naLib
        \/ \E p \in Pedidos, w \in Workers : naLib' = naLib \union {<<w, p, numero[p]>>}
    BY DEF Next, vars, Tick, Chegar, PrazoDaFila, PrazoDaChamada, PegarVaga, DialFalha,
       Sair, Retornar, FimDaQuarentena, SinalNoWorker, WorkerVazio, WorkerPrazo, Subir,
       Congelar, Descongelar, SinalNaApi, ApiVazia, ApiPrazo, Sondar, SondaAtendida,
       SondaRecusada, SondaPrazo, Concluir
  <2> QED
    BY <2>1 DEF Tipos, Restante
<1>2. /\ pronto' \in {pronto, "nada", "ok", "indisponivel"}
      /\ firmes' \subseteq firmes \union Workers
      /\ mudos' \subseteq mudos \union Workers
  BY DEF Next, vars, Tick, Chegar, PrazoDaFila, PrazoDaChamada, PegarVaga, DialFalha,
     Sair, Retornar, FimDaQuarentena, SinalNoWorker, WorkerVazio, WorkerPrazo, Subir,
     Congelar, Descongelar, SinalNaApi, ApiVazia, ApiPrazo, Sondar, SondaAtendida,
     SondaRecusada, SondaPrazo, Concluir, saude, Parou
<1>3. \/ UNCHANGED sinais
      \/ sinais < MaxSinais /\ sinais' = sinais + 1
  BY DEF Next, vars, Tick, Chegar, PrazoDaFila, PrazoDaChamada, PegarVaga, DialFalha,
     Sair, Retornar, FimDaQuarentena, SinalNoWorker, WorkerVazio, WorkerPrazo, Subir,
     Congelar, Descongelar, SinalNaApi, ApiVazia, ApiPrazo, Sondar, SondaAtendida,
     SondaRecusada, SondaPrazo, Concluir
<1>4. \/ UNCHANGED sondas
      \/ sondas < MaxSondas /\ sondas' = sondas + 1
  BY DEF Next, vars, Tick, Chegar, PrazoDaFila, PrazoDaChamada, PegarVaga, DialFalha,
     Sair, Retornar, FimDaQuarentena, SinalNoWorker, WorkerVazio, WorkerPrazo, Subir,
     Congelar, Descongelar, SinalNaApi, ApiVazia, ApiPrazo, Sondar, SondaAtendida,
     SondaRecusada, SondaPrazo, Concluir, saude
<1>5. sinais' \in 0..MaxSinais /\ sondas' \in 0..MaxSondas
  BY <1>3, <1>4 DEF Restante
<1> QED
  BY <1>1, <1>2, <1>5 DEF Restante

\* Every variable of Processos keeps its type: in particular no slot is in the
\* channel and in quarantine at once, and no timer runs past its deadline by
\* more than the delay.
THEOREM EspecTiposDosProcessos == Spec => []TypeOK
<1>1. Init => Sondagem /\ Vagas /\ NoPrazo /\ Restante
  BY PrazoConhecido
  DEF Init, Sondagem, Vagas, NoPrazo, Restante, Relogios
<1>2. IInv => Tipos
  BY DEF IInv
<1>3. IInv /\ Sondagem /\ Vagas /\ NoPrazo /\ Restante => TypeOK
  BY DEF IInv, Tipos, Sondagem, Vagas, NoPrazo, Restante, TypeOK
<1> QED
  BY <1>1, <1>2, <1>3, SempreIInv, SondagemInvariante, NextVagas, NextNoPrazo,
     NextRestante, PTL DEF Spec

=============================================================================
