------------------------ MODULE Despacho_vagas_proofs ------------------------
(***************************************************************************)
(* Where the slots of the pool are, and what that bounds: theorems about   *)
(* Despacho for any number of calls, workers and slots.                    *)
(***************************************************************************)
EXTENDS Despacho_proofs, FiniteSetTheorems

\* VagasConservadas in the form that is easy to carry from step to step: a
\* caller's slot is its own and nowhere else, and no slot is lost.
VagasNoLugar ==
  /\ livres \intersect quarentena = {}
  /\ \A c \in Chamadas : fase[c] \in ComVaga =>
       rota[c] \in Vagas /\ rota[c] \notin livres \union quarentena
  /\ \A c, d \in Chamadas :
       fase[c] \in ComVaga /\ fase[d] \in ComVaga /\ rota[c] = rota[d] => c = d
  /\ \A v \in Vagas : v \notin livres \union quarentena =>
       \E c \in Chamadas : fase[c] \in ComVaga /\ rota[c] = v

-----------------------------------------------------------------------------

USE DespachoAssumption

\* Steps after which the same callers hold the same slots.
LEMMA MesmasVagas ==
  ASSUME VagasNoLugar, UNCHANGED <<livres, quarentena, rota>>,
         \A c \in Chamadas : fase'[c] \in ComVaga <=> fase[c] \in ComVaga
  PROVE  VagasNoLugar'
  BY DEF VagasNoLugar

\* A caller's slot goes back, to the channel or to the quarantine.
LEMMA VagaDevolvida ==
  ASSUME IInv, VagasNoLugar, NEW c \in Chamadas, fase[c] \in ComVaga,
         fase' = [fase EXCEPT ![c] = "fim"], UNCHANGED rota,
         \/ livres' = livres \union {rota[c]} /\ UNCHANGED quarentena
         \/ quarentena' = quarentena \union {rota[c]} /\ UNCHANGED livres
  PROVE  VagasNoLugar'
<1>1. \A d \in Chamadas : fase'[d] \in ComVaga <=> d # c /\ fase[d] \in ComVaga
  BY DEF IInv, TypeOK, ComVaga
<1>2. (livres \union quarentena)' = livres \union quarentena \union {rota[c]}
  OBVIOUS
<1>3. rota[c] \notin livres \union quarentena /\ livres \intersect quarentena = {}
  BY DEF VagasNoLugar
<1>4. (livres \intersect quarentena)' = {}
  BY <1>3
<1>5. \A d \in Chamadas : d # c /\ fase[d] \in ComVaga => rota[d] # rota[c]
  BY DEF VagasNoLugar
<1> QED
  BY <1>1, <1>2, <1>4, <1>5 DEF VagasNoLugar

LEMMA VagaPega ==
  ASSUME IInv, VagasNoLugar, NEW c \in Chamadas, PegarVaga(c)
  PROVE  VagasNoLugar'
<1>1. PICK v \in livres : /\ livres' = livres \ {v}
                          /\ rota' = [rota EXCEPT ![c] = v]
  BY DEF PegarVaga
<1>2. v \in Vagas /\ v \notin quarentena
  BY DEF VagasNoLugar, IInv, TypeOK
<1>3. fase[c] \notin ComVaga
  BY DEF PegarVaga, ComVaga
<1>4. /\ fase'[c] = "comVaga" /\ rota'[c] = v /\ UNCHANGED quarentena
      /\ \A d \in Chamadas \ {c} : fase'[d] = fase[d] /\ rota'[d] = rota[d]
  BY <1>1 DEF PegarVaga, IInv, TypeOK
<1>5. \A d \in Chamadas \ {c} : fase[d] \in ComVaga => rota[d] # v
  BY DEF VagasNoLugar
<1>6. (livres \intersect quarentena)' = {}
  BY <1>1, <1>4 DEF VagasNoLugar
<1>7. \A d \in Chamadas : fase'[d] \in ComVaga =>
        rota'[d] \in Vagas /\ rota'[d] \notin (livres \union quarentena)'
  BY <1>1, <1>2, <1>4 DEF VagasNoLugar
<1>8. \A d, e \in Chamadas :
        fase'[d] \in ComVaga /\ fase'[e] \in ComVaga /\ rota'[d] = rota'[e] => d = e
  BY <1>4, <1>5 DEF VagasNoLugar
<1>9. \A u \in Vagas : u \notin (livres \union quarentena)' =>
        \E d \in Chamadas : fase'[d] \in ComVaga /\ rota'[d] = u
  <2> SUFFICES ASSUME NEW u \in Vagas, u \notin (livres \union quarentena)'
               PROVE  \E d \in Chamadas : fase'[d] \in ComVaga /\ rota'[d] = u
    OBVIOUS
  <2>1. CASE u = v
    BY <2>1, <1>4 DEF ComVaga
  <2>2. CASE u # v
    BY <2>2, <1>1, <1>3, <1>4 DEF VagasNoLugar
  <2> QED
    BY <2>1, <2>2
<1> QED
  BY <1>6, <1>7, <1>8, <1>9 DEF VagasNoLugar

LEMMA PassoVagas == IInv /\ VagasNoLugar /\ [Next]_vars => VagasNoLugar'
<1> SUFFICES ASSUME IInv, VagasNoLugar, [Next]_vars PROVE VagasNoLugar'
  OBVIOUS
<1>1. ASSUME NEW c \in Chamadas, Chamar(c) \/ PassoDoChamador(c)
      PROVE  VagasNoLugar'
  <2>1. CASE Chamar(c) \/ FilaEsgota(c) \/ Enviar(c) \/ CabecalhoChega(c)
    BY <2>1, MesmasVagas DEF Chamar, FilaEsgota, Enviar, CabecalhoChega,
       Responder, ComVaga, IInv, TypeOK
  <2>2. CASE PegarVaga(c)
    BY <2>2, VagaPega
  <2>3. CASE DialFalha(c)
    BY <2>3, VagaDevolvida DEF DialFalha, Responder, ComVaga
  <2>4. CASE ConexaoCai(c) \/ PrazoDaChamada(c) \/ LerResposta(c)
             \/ LeituraFalha(c)
    BY <2>4, VagaDevolvida DEF ConexaoCai, PrazoDaChamada, LerResposta,
       LeituraFalha, ResponderEDevolver, Responder, ComVaga
  <2> QED
    BY <1>1, <2>1, <2>2, <2>3, <2>4 DEF PassoDoChamador
<1>2. ASSUME NEW c \in Chamadas, PassoDoHandler(c)
      PROVE  VagasNoLugar'
  BY <1>2, MesmasVagas DEF PassoDoHandler, Aceitar, PedidoTruncado, Despachar,
     DesistirDaVaga, Transmitir, Retornar, Concluir, lado_cliente
<1>3. ASSUME NEW v \in Vagas, QuarentenaAcaba(v)
      PROVE  VagasNoLugar'
  <2>1. (livres \union quarentena)' = livres \union quarentena
    BY <1>3 DEF QuarentenaAcaba
  <2>2. (livres \intersect quarentena)' = {}
    BY <1>3 DEF QuarentenaAcaba, VagasNoLugar
  <2>3. UNCHANGED <<fase, rota>>
    BY <1>3 DEF QuarentenaAcaba
  <2> QED
    BY <2>1, <2>2, <2>3 DEF VagasNoLugar
<1>4. ASSUME NEW w \in Workers, PassoDoProcesso(w)
      PROVE  VagasNoLugar'
  BY <1>4, MesmasVagas DEF PassoDoProcesso, Drenar, Sair, Morrer, Reiniciar,
     lado_cliente
<1>5. CASE UNCHANGED vars
  BY <1>5, MesmasVagas DEF vars
<1> QED
  BY <1>1, <1>2, <1>3, <1>4, <1>5 DEF Next, Repouso

LEMMA SempreNoLugar == Spec => []VagasNoLugar
<1>1. Init => VagasNoLugar
  BY DEF Init, VagasNoLugar, ComVaga
<1> QED
  BY <1>1, PassoVagas, EspecAcordo, PTL DEF Spec

\* The pool neither loses nor duplicates a slot (remoto.go:162-176).
THEOREM EspecVagasConservadas == Spec => []VagasConservadas
<1>1. VagasNoLugar => VagasConservadas
  <2> SUFFICES ASSUME VagasNoLugar, NEW v \in Vagas
               PROVE  LET donos == {c \in Chamadas : fase[c] \in ComVaga
                                                     /\ rota[c] = v}
                      IN  IF v \in livres \union quarentena THEN donos = {}
                          ELSE \E c \in Chamadas : donos = {c}
    BY DEF VagasConservadas, VagasNoLugar
  <2> DEFINE donos == {c \in Chamadas : fase[c] \in ComVaga /\ rota[c] = v}
  <2>1. CASE v \in livres \union quarentena
    BY <2>1 DEF VagasNoLugar
  <2>2. CASE v \notin livres \union quarentena
    <3>1. PICK c \in Chamadas : fase[c] \in ComVaga /\ rota[c] = v
      BY <2>2 DEF VagasNoLugar
    <3>2. \A d \in donos : d = c
      BY <3>1 DEF VagasNoLugar
    <3>3. donos = {c}
      BY <3>1, <3>2
    <3> QED
      BY <2>2, <3>3
  <2> QED
    BY <2>1, <2>2
<1> QED
  BY <1>1, SempreNoLugar, PTL

-----------------------------------------------------------------------------
(* What a crash can take with it.                                          *)

\* One crash takes at most Slots waiting callers (README.md:137): the callers
\* connected to a worker hold different slots of it.
THEOREM EspecRaioDaQueda == Spec => []RaioDaQueda
<1>1. IInv /\ VagasNoLugar => RaioDaQueda
  <2> SUFFICES ASSUME IInv, VagasNoLugar, NEW w \in Workers
               PROVE  Cardinality({c \in Chamadas : fase[c] \in {"enviada", "lendo"}
                                                    /\ rota[c][1] = w}) <= Slots
    BY DEF RaioDaQueda
  <2> DEFINE S == {c \in Chamadas : fase[c] \in {"enviada", "lendo"}
                                    /\ rota[c][1] = w}
             f == [c \in S |-> rota[c][2]]
  <2>1. \A c \in S : fase[c] \in ComVaga /\ rota[c] \in Vagas /\ rota[c][1] = w
    BY DEF ComVaga, VagasNoLugar
  <2>2. \A c \in S : rota[c] = <<w, f[c]>> /\ f[c] \in 1..Slots
    BY <2>1 DEF Vagas
  <2>3. \A c, d \in S : f[c] = f[d] => c = d
    <3> TAKE c, d \in S
    <3> HAVE f[c] = f[d]
    <3>1. rota[c] = rota[d]
      BY <2>2
    <3> HIDE DEF f
    <3> QED
      BY <2>1, <3>1 DEF VagasNoLugar
  <2>4. f \in Injection(S, 1..Slots)
    BY <2>2, <2>3 DEF Injection, IsInjective
  <2>5. IsFiniteSet(1..Slots) /\ Cardinality(1..Slots) = Slots
    BY FS_Interval
  <2> QED
    BY <2>4, <2>5, FS_Injection
<1> QED
  BY <1>1, SempreNoLugar, EspecAcordo, PTL

-----------------------------------------------------------------------------
(* The worker's own bound.                                                 *)

\* The requests in the library are finitely many and at most Slots per worker;
\* finiteness is carried along because Chamadas may be infinite.
NativasContadas ==
  \A w \in Workers : /\ IsFiniteSet(NoWorker(w, Ocupantes))
                     /\ Cardinality(NoWorker(w, Ocupantes)) <= Slots

LEMMA MenosNativas ==
  ASSUME NativasContadas,
         \A w \in Workers : NoWorker(w, Ocupantes)' \subseteq NoWorker(w, Ocupantes)
  PROVE  NativasContadas'
<1> SUFFICES ASSUME NEW w \in Workers
             PROVE  /\ IsFiniteSet(NoWorker(w, Ocupantes)')
                    /\ Cardinality(NoWorker(w, Ocupantes)') <= Slots
  BY DEF NativasContadas, Ocupantes
<1> DEFINE S == NoWorker(w, Ocupantes)
<1>1. IsFiniteSet(S) /\ Cardinality(S) <= Slots /\ S' \subseteq S
  BY DEF NativasContadas
<1>2. IsFiniteSet(S') /\ Cardinality(S') <= Cardinality(S)
  BY <1>1, FS_Subset
<1>3. Cardinality(S) \in Nat /\ Cardinality(S') \in Nat
  BY <1>1, <1>2, FS_CardinalityType
<1> QED
  BY <1>1, <1>2, <1>3

LEMMA PassoNativas == IInv /\ NativasContadas /\ [Next]_vars => NativasContadas'
<1> SUFFICES ASSUME IInv, NativasContadas, [Next]_vars PROVE NativasContadas'
  OBVIOUS
<1> USE DEF NoWorker, Ocupantes
<1>1. ASSUME NEW c \in Chamadas, Chamar(c) \/ PassoDoChamador(c)
      PROVE  NativasContadas'
  <2>1. CASE PegarVaga(c)
    <3>1. serv[c] = "fora" /\ UNCHANGED serv
      BY <2>1 DEF PegarVaga, lado_worker, IInv, Acordo, AcordoDe
    <3>2. \A d \in Chamadas \ {c} : rota'[d] = rota[d]
      BY <2>1 DEF PegarVaga, IInv, TypeOK
    <3> QED
      BY <3>1, <3>2, MenosNativas
  <2>2. CASE Enviar(c)
    BY <2>2, MenosNativas DEF Enviar, IInv, TypeOK
  <2>3. CASE Chamar(c) \/ FilaEsgota(c) \/ DialFalha(c) \/ ConexaoCai(c)
             \/ PrazoDaChamada(c) \/ CabecalhoChega(c) \/ LerResposta(c)
             \/ LeituraFalha(c)
    <3>1. UNCHANGED <<serv, rota>>
      BY <2>3 DEF Chamar, FilaEsgota, DialFalha, ConexaoCai, PrazoDaChamada,
         CabecalhoChega, LerResposta, LeituraFalha, ResponderEDevolver, lado_worker
    <3> QED
      BY <3>1, MenosNativas
  <2> QED
    BY <1>1, <2>1, <2>2, <2>3 DEF PassoDoChamador
<1>2. ASSUME NEW c \in Chamadas, PassoDoHandler(c)
      PROVE  NativasContadas'
  <2>1. CASE Despachar(c)
    <3> SUFFICES ASSUME NEW w \in Workers
                 PROVE  /\ IsFiniteSet(NoWorker(w, Ocupantes)')
                        /\ Cardinality(NoWorker(w, Ocupantes)') <= Slots
      BY DEF NativasContadas
    <3> DEFINE S == NoWorker(w, Ocupantes)
    <3>1. IsFiniteSet(S) /\ Cardinality(S) \in Nat /\ Cardinality(S) <= Slots
      BY FS_CardinalityType DEF NativasContadas
    <3>2. /\ serv' = [serv EXCEPT ![c] = "nativa"] /\ UNCHANGED rota
          /\ Cardinality(NoWorker(rota[c][1], Ocupantes)) < Slots
      BY <2>1 DEF Despachar, lado_cliente
    <3>3. CASE rota[c][1] = w
      <4>1. S' = S \union {c}
        BY <3>2, <3>3 DEF IInv, TypeOK
      <4>2. /\ IsFiniteSet(S \union {c})
            /\ Cardinality(S \union {c}) \in {Cardinality(S), Cardinality(S) + 1}
        BY <3>1, FS_AddElement
      <4>3. Cardinality(S) < Slots
        BY <3>2, <3>3
      <4>4. Cardinality(S \union {c}) <= Slots
        <5> HIDE DEF S
        <5> QED
          BY <3>1, <4>2, <4>3
      <4>5. NoWorker(w, Ocupantes)' = S \union {c}
        BY <4>1
      <4> QED
        BY <4>2, <4>4, <4>5
    <3>4. CASE rota[c][1] # w
      <4>1. S' = S
        BY <3>2, <3>4 DEF IInv, TypeOK
      <4> QED
        BY <3>1, <4>1
    <3> QED
      BY <3>3, <3>4
  <2>2. CASE Aceitar(c) \/ PedidoTruncado(c) \/ DesistirDaVaga(c)
             \/ Transmitir(c) \/ Retornar(c) \/ Concluir(c)
    <3>1. /\ UNCHANGED rota
          /\ \A d \in Chamadas : serv'[d] \in Ocupantes => serv[d] \in Ocupantes
      BY <2>2 DEF Aceitar, PedidoTruncado, DesistirDaVaga, Transmitir, Retornar,
         Concluir, lado_cliente, NaLib, IInv, TypeOK
    <3> QED
      BY <3>1, MenosNativas
  <2> QED
    BY <1>2, <2>1, <2>2 DEF PassoDoHandler
<1>3. ASSUME NEW v \in Vagas, QuarentenaAcaba(v)
      PROVE  NativasContadas'
  BY <1>3, MenosNativas DEF QuarentenaAcaba, lado_worker
<1>4. ASSUME NEW w \in Workers, PassoDoProcesso(w)
      PROVE  NativasContadas'
  <2>1. /\ UNCHANGED rota
        /\ \A d \in Chamadas : serv'[d] \in Ocupantes => serv[d] \in Ocupantes
    BY <1>4 DEF PassoDoProcesso, Drenar, Sair, Morrer, Reiniciar, Cortar,
       lado_cliente
  <2> QED
    BY <2>1, MenosNativas
<1>5. CASE UNCHANGED vars
  BY <1>5, MenosNativas DEF vars
<1> QED
  BY <1>1, <1>2, <1>3, <1>4, <1>5 DEF Next, Repouso

\* The library never runs more than Slots calls in one worker process,
\* whatever requests callers left behind (rpcserver.go:15-17).
THEOREM EspecConcorrenciaNativa == Spec => []ConcorrenciaNativa
<1>1. Init => NativasContadas
  <2> SUFFICES ASSUME Init, NEW w \in Workers
               PROVE  /\ IsFiniteSet(NoWorker(w, Ocupantes))
                      /\ Cardinality(NoWorker(w, Ocupantes)) <= Slots
    BY DEF NativasContadas
  <2>1. NoWorker(w, Ocupantes) = {}
    BY DEF Init, NoWorker, Ocupantes
  <2> QED
    BY <2>1, FS_EmptySet
<1>2. NativasContadas => ConcorrenciaNativa
  BY DEF NativasContadas, ConcorrenciaNativa
<1> QED
  BY <1>1, <1>2, PassoNativas, EspecAcordo, PTL DEF Spec

=============================================================================
